---- MODULE Spec2Model ----
(***************************************************************************)
(* Governance signal pipeline of llm-coherence-control-plane:              *)
(*   intelligence_layer.py  (session state, cooldown hysteresis,           *)
(*                           segmentation predicate)                       *)
(*   intelligence_gate.py   (entropy window, stabilize constraint)         *)
(*   instrumentation.py / invariants.py (append-only log and verifier)     *)
(*   confidence.py / actuation_threshold.py (confidence and actuation)     *)
(*                                                                         *)
(* Number representation.  The program computes with Python floats; the    *)
(* model computes with exact fixed-point integers:                         *)
(*   K, R, slopes      : units of 1/20000  (KScale)                        *)
(*   snapshot values   : units of 1/10000  (4 decimals, as round(x, 4))    *)
(*   confidence        : units of 1/1000   (3 decimals, as round(x, 3))    *)
(*   raw entropy       : units of 1/EntScale, exact for the sample texts   *)
(* The sample inputs keep every compared quantity away from the exact      *)
(* threshold unless the exact value is representable, so the binary        *)
(* rounding of floats does not change any comparison made here.            *)
(***************************************************************************)
EXTENDS Integers, Sequences, FiniteSets, TLC

VARIABLES
    state,          \* the session's ILState (intelligence_layer.py)
    last_tokens,    \* estimate_coherence._last_tokens, a module-level attribute
    ret,            \* what the most recent intelligence-layer call on the session returned
    peer,           \* the ILState of a second session in the same process
    solo,           \* the session as it would be with a token memory of its own
    trail,          \* history: every (K, R) pair update_state computed for the session
    gate,           \* the IntelligenceGate object (intelligence_gate.py)
    out,            \* what the most recent process() call returned
    samples,        \* history: every entropy sample process() measured
    log,            \* lines of ~/.elyria_instrumentation.jsonl
    log_exists,     \* LOG.exists()
    call,           \* the most recent call of a pure decision function
    writers,        \* the processes inside instrumentation.record()
    memory,         \* a MemoryStore, the clock it reads, and what was written to it
    nodes           \* the node store file of elyria_cp, its lock, and the commands at work on it

sessionVars == <<state, last_tokens, ret, peer, solo, trail>>
gateVars == <<gate, out, samples, log, log_exists>>
storeVars == <<writers, memory, nodes>>

vars == <<sessionVars, gateVars, call, storeVars>>

----------------------------------------------------------------------------
(* Python values *)

\* None, where a dict was expected
None == [py_none |-> TRUE]

\* None, where a string was expected (dict.get on a missing key)
NoneStr == "<None>"

\* {}
EmptyDict == [k \in {} |-> 0]

\* d.get(key, default)
Get(d, key, default) == IF key \in DOMAIN d THEN d[key] ELSE default

\* bool(d) for d a dict or None
Truthy(d) == d # None /\ DOMAIN d # {}

\* x in lst
InList(x, lst) == \E i \in DOMAIN lst : lst[i] = x

\* round(a / b, n) for a >= 0, b > 0, the result in units of 10^-n:
\* Python rounds to the nearest representable value, ties to even
RoundDiv(a, b) ==
    LET q == a \div b
        r == a % b
    IN  IF 2 * r > b THEN q + 1
        ELSE IF 2 * r < b THEN q
        ELSE IF q % 2 = 0 THEN q ELSE q + 1

Min(a, b) == IF a < b THEN a ELSE b
Max(a, b) == IF a > b THEN a ELSE b

----------------------------------------------------------------------------
(* actuation_threshold.py *)

\* 0.75, in thousandths
DEFAULT_CONFIDENCE_THRESHOLD == 750

Deny(reason) == [decision |-> "DENY", reason |-> reason]
Allow(reason) == [decision |-> "ALLOW", reason |-> reason]

\* mutant: the confidence gate is consulted before the invariants
may_act_confidence_first(confidence, invariant_status, policy_snapshot, threshold) ==
    IF confidence < threshold
    THEN Deny("confidence below threshold")
    ELSE IF Get(invariant_status, "status", NoneStr) # "CLEAN"
    THEN Deny("invariants not clean")
    ELSE IF Truthy(policy_snapshot) /\ ~Get(policy_snapshot, "allow_action", TRUE)
    THEN Deny("policy prohibits action")
    ELSE Allow("all thresholds satisfied")

\* mutant: the confidence gate rejects a confidence equal to the threshold
may_act_strict(confidence, invariant_status, policy_snapshot, threshold) ==
    IF Get(invariant_status, "status", NoneStr) # "CLEAN"
    THEN Deny("invariants not clean")
    ELSE IF confidence <= threshold
    THEN Deny("confidence below threshold")
    ELSE IF Truthy(policy_snapshot) /\ ~Get(policy_snapshot, "allow_action", TRUE)
    THEN Deny("policy prohibits action")
    ELSE Allow("all thresholds satisfied")

may_act(confidence, invariant_status, policy_snapshot, threshold) ==
    IF Get(invariant_status, "status", NoneStr) # "CLEAN"
    THEN Deny("invariants not clean")
    ELSE IF confidence < threshold
    THEN Deny("confidence below threshold")
    ELSE IF Truthy(policy_snapshot) /\ ~Get(policy_snapshot, "allow_action", TRUE)
    THEN Deny("policy prohibits action")
    ELSE Allow("all thresholds satisfied")

----------------------------------------------------------------------------
(* execution_binding.py *)

\* mutant: the operator approval is checked before the mode
may_execute_operator_first(capabilities, mode, operator_ok) ==
    IF ~operator_ok
    THEN Deny("operator approval not present")
    ELSE IF mode # "execute"
    THEN Deny("execution mode not enabled")
    ELSE IF capabilities = <<>>
    THEN Deny("no executable capabilities")
    ELSE Allow("explicit execution binding satisfied")

\* may_execute(capabilities, mode, operator_ok)
may_execute(capabilities, mode, operator_ok) ==
    IF mode # "execute"
    THEN Deny("execution mode not enabled")
    ELSE IF ~operator_ok
    THEN Deny("operator approval not present")
    ELSE IF capabilities = <<>>
    THEN Deny("no executable capabilities")
    ELSE Allow("explicit execution binding satisfied")

----------------------------------------------------------------------------
(* confidence.py *)

\* mutant: a missing or unclean status no longer forces the result to 0
compute_confidence_no_hard_stop(gate_snapshot, invariant_status) ==
    LET entropy == IF Truthy(gate_snapshot)
                   THEN Get(gate_snapshot, "mean_entropy", 0) ELSE 0
        stabilized == IF Truthy(gate_snapshot)
                      THEN InList("stabilize", Get(gate_snapshot, "active_constraints", <<>>))
                      ELSE FALSE
        c1 == 100000 - 4 * Min(entropy, 10000)
        c2 == IF stabilized THEN c1 - 20000 ELSE c1
    IN  RoundDiv(Max(0, Min(c2, 100000)), 100)

\* mutant: the entropy term is added instead of subtracted
compute_confidence_entropy_bonus(gate_snapshot, invariant_status) ==
    LET entropy == IF Truthy(gate_snapshot)
                   THEN Get(gate_snapshot, "mean_entropy", 0) ELSE 0
        stabilized == IF Truthy(gate_snapshot)
                      THEN InList("stabilize", Get(gate_snapshot, "active_constraints", <<>>))
                      ELSE FALSE
        invariant_clean == IF Truthy(invariant_status)
                           THEN Get(invariant_status, "status", "CLEAN") = "CLEAN"
                           ELSE TRUE
        c1 == 100000 + 4 * Min(entropy, 10000)
        c2 == IF stabilized THEN c1 - 20000 ELSE c1
        c3 == IF ~invariant_clean THEN 0 ELSE c2
    IN  RoundDiv(Max(0, Min(c3, 100000)), 100)

\* mutant: a stabilized gate costs no confidence
compute_confidence_no_stabilize_penalty(gate_snapshot, invariant_status) ==
    LET entropy == IF Truthy(gate_snapshot)
                   THEN Get(gate_snapshot, "mean_entropy", 0) ELSE 0
        invariant_clean == IF Truthy(invariant_status)
                           THEN Get(invariant_status, "status", "CLEAN") = "CLEAN"
                           ELSE TRUE
        c1 == 100000 - 4 * Min(entropy, 10000)
        c3 == IF ~invariant_clean THEN 0 ELSE c1
    IN  RoundDiv(Max(0, Min(c3, 100000)), 100)

\* confidence in thousandths; the intermediate value is kept in units of
\* 1/100000 so that min(entropy, 1.0) * 0.4 is exact for a 4-decimal entropy
compute_confidence(gate_snapshot, invariant_status) ==
    LET entropy == IF Truthy(gate_snapshot)
                   THEN Get(gate_snapshot, "mean_entropy", 0) ELSE 0
        stabilized == IF Truthy(gate_snapshot)
                      THEN InList("stabilize", Get(gate_snapshot, "active_constraints", <<>>))
                      ELSE FALSE
        invariant_clean == IF Truthy(invariant_status)
                           THEN Get(invariant_status, "status", "CLEAN") = "CLEAN"
                           ELSE TRUE
        c1 == 100000 - 4 * Min(entropy, 10000)
        c2 == IF stabilized THEN c1 - 20000 ELSE c1
        c3 == IF ~invariant_clean THEN 0 ELSE c2
    IN  RoundDiv(Max(0, Min(c3, 100000)), 100)

----------------------------------------------------------------------------
(* intelligence_gate.py *)

\* ELYRIA_ENTROPY_MAX, default 0.30, in units of 1/10000
ENTROPY_MAX == 3000

WINDOW_SIZE == 10

\* raw entropies are kept in units of 1/EntScale; a text whose stripped
\* length divides EntScale has an exactly representable entropy
EntScale == 13 * 19

Whitespace == {" "}

RECURSIVE LStrip(_)
LStrip(text) ==
    IF text # <<>> /\ Head(text) \in Whitespace THEN LStrip(Tail(text)) ELSE text

RECURSIVE RStrip(_)
RStrip(text) ==
    IF text # <<>> /\ text[Len(text)] \in Whitespace
    THEN RStrip(SubSeq(text, 1, Len(text) - 1)) ELSE text

\* IntelligenceGate.extract_signal: text.strip(), a text being a sequence of characters
extract_signal(text) == RStrip(LStrip(text))

\* mutant: the ratio is taken over the number of distinct characters
measure_entropy_inverted(text) ==
    IF text = <<>> THEN 0
    ELSE (Len(text) * EntScale) \div Cardinality({text[i] : i \in DOMAIN text})

\* IntelligenceGate.measure_entropy: distinct characters / length
measure_entropy(text) ==
    IF text = <<>> THEN 0
    ELSE (Cardinality({text[i] : i \in DOMAIN text}) * EntScale) \div Len(text)

\* IntelligenceGate.__init__
NewGate == [entropy_window |-> <<>>, active_constraints |-> {}, identity_pressure |-> 0]

\* mutant: a full window refuses the new sample instead of evicting the oldest
DequeAppend_drops_newest(dq, x, n) ==
    IF Len(dq) >= n THEN dq ELSE Append(dq, x)

\* deque(maxlen=n).append(x)
DequeAppend(dq, x, n) ==
    IF Len(dq) >= n THEN Append(Tail(dq), x) ELSE Append(dq, x)

RECURSIVE SumSeq(_)
SumSeq(s) == IF s = <<>> THEN 0 ELSE Head(s) + SumSeq(Tail(s))

\* list(a_set) for a set of at most one tag
ListOf(S) == IF S = {} THEN <<>> ELSE <<CHOOSE x \in S : TRUE>>

\* does the window's mean exceed the ceiling: sum/len > ENTROPY_MAX
MeanExceeds(window, ceiling) ==
    SumSeq(window) * 10000 > ceiling * EntScale * Len(window)

\* mutant: the previous call's constraints are not cleared
process_sticky(g, text) ==
    LET signal == extract_signal(text)
        entropy == measure_entropy(signal)
        window == DequeAppend(g.entropy_window, entropy, WINDOW_SIZE)
        constraints == IF MeanExceeds(window, ENTROPY_MAX)
                       THEN g.active_constraints \cup {"stabilize"}
                       ELSE g.active_constraints
        snapshot == [entropy |-> RoundDiv(entropy * 10000, EntScale),
                     mean_entropy |-> RoundDiv(SumSeq(window) * 10000, EntScale * Len(window)),
                     active_constraints |-> ListOf(constraints),
                     identity_pressure |-> RoundDiv(g.identity_pressure * 10000, 10000)]
        dampening == IF "stabilize" \in constraints THEN 7000 ELSE 10000
    IN  [gate |-> [g EXCEPT !.entropy_window = window, !.active_constraints = constraints],
         snapshot |-> snapshot,
         dampening |-> dampening]

\* IntelligenceGate.process: the gate after the call and the returned pair;
\* snapshot values and the dampening are in units of 1/10000
process(g, text) ==
    LET signal == extract_signal(text)
        entropy == measure_entropy(signal)
        window == DequeAppend(g.entropy_window, entropy, WINDOW_SIZE)
        constraints == IF MeanExceeds(window, ENTROPY_MAX) THEN {"stabilize"} ELSE {}
        snapshot == [entropy |-> RoundDiv(entropy * 10000, EntScale),
                     mean_entropy |-> RoundDiv(SumSeq(window) * 10000, EntScale * Len(window)),
                     active_constraints |-> ListOf(constraints),
                     identity_pressure |-> RoundDiv(g.identity_pressure * 10000, 10000)]
        dampening == IF "stabilize" \in constraints THEN 7000 ELSE 10000
    IN  [gate |-> [g EXCEPT !.entropy_window = window, !.active_constraints = constraints],
         snapshot |-> snapshot,
         dampening |-> dampening]

----------------------------------------------------------------------------
(* instrumentation.py, invariants.py *)

\* json.dumps(entry) + "\n": one line of the log
json_dumps(entry) == [json |-> entry]

\* does json.loads(line) succeed
Parseable(line) == "json" \in DOMAIN line

\* json.loads(line), for a parseable line
json_loads(line) == line.json

\* instrumentation.record: the log after the append; ts is the position of
\* the record in the log, standing for the wall-clock time of the call
record(lg, snapshot, dampening) ==
    Append(lg, json_dumps(
        [ts |-> Len(lg),
         entropy |-> snapshot.entropy,
         mean_entropy |-> snapshot.mean_entropy,
         active_constraints |-> Get(snapshot, "active_constraints", <<>>),
         identity_pressure |-> snapshot.identity_pressure,
         dampening |-> dampening]))

\* invariants.load_events: no events when the file does not exist;
\* unparseable lines are skipped
load_events(exists, lg) ==
    IF ~exists THEN <<>>
    ELSE LET kept == SelectSeq(lg, Parseable)
         IN  [i \in 1..Len(kept) |-> json_loads(kept[i])]

\* the keys of INVARIANTS, in definition order
InvariantNames ==
    <<"entropy_bound", "mean_entropy_bound", "dampening_range",
      "no_identity_write", "constraints_explicit">>

\* INVARIANTS[name](e): "ok", "fail", or "exception" when the lambda raises
\* (a KeyError on a missing key).  An event's active_constraints, when the
\* key is present, is a list; e.get gives None, not a list, when it is absent.
Rule(name, e) ==
    CASE name = "entropy_bound" ->
            IF "entropy" \notin DOMAIN e THEN "exception"
            ELSE IF 0 <= e.entropy /\ e.entropy <= 10000 THEN "ok" ELSE "fail"
      [] name = "mean_entropy_bound" ->
            IF "mean_entropy" \notin DOMAIN e THEN "exception"
            ELSE IF 0 <= e.mean_entropy /\ e.mean_entropy <= 10000 THEN "ok" ELSE "fail"
      [] name = "dampening_range" ->
            IF "dampening" \notin DOMAIN e THEN "exception"
            ELSE IF 0 < e.dampening /\ e.dampening <= 10000 THEN "ok" ELSE "fail"
      [] name = "no_identity_write" ->
            IF "identity_pressure" \in DOMAIN e THEN "ok" ELSE "fail"
      [] name = "constraints_explicit" ->
            IF "active_constraints" \in DOMAIN e THEN "ok" ELSE "fail"

\* mutant: the scan stops at the first failing pair
verify_fail_fast(exists, lg) ==
    LET events == load_events(exists, lg)
        n == Len(InvariantNames)
        pairs == [k \in 1..(Len(events) * n) |->
                    <<(k - 1) \div n, InvariantNames[((k - 1) % n) + 1]>>]
        Failed(p) == Rule(p[2], events[p[1] + 1]) # "ok"
        failed == SelectSeq(pairs, Failed)
        failures == IF failed = <<>> THEN <<>> ELSE <<Head(failed)>>
    IN  IF events = <<>> THEN [code |-> 1, failures |-> <<>>]
        ELSE IF failures # <<>> THEN [code |-> 2, failures |-> failures]
        ELSE [code |-> 0, failures |-> <<>>]

\* mutant: without events there is nothing to fail, and the result is CLEAN
verify_vacuous_clean(exists, lg) ==
    LET events == load_events(exists, lg)
        n == Len(InvariantNames)
        pairs == [k \in 1..(Len(events) * n) |->
                    <<(k - 1) \div n, InvariantNames[((k - 1) % n) + 1]>>]
        Failed(p) == Rule(p[2], events[p[1] + 1]) # "ok"
        failures == SelectSeq(pairs, Failed)
    IN  IF failures # <<>> THEN [code |-> 2, failures |-> failures]
        ELSE [code |-> 0, failures |-> <<>>]

\* invariants.verify: the exit code and the failures as (index, name) pairs,
\* in the order the nested loops append them
verify(exists, lg) ==
    LET events == load_events(exists, lg)
        n == Len(InvariantNames)
        pairs == [k \in 1..(Len(events) * n) |->
                    <<(k - 1) \div n, InvariantNames[((k - 1) % n) + 1]>>]
        Failed(p) == Rule(p[2], events[p[1] + 1]) # "ok"
        failures == SelectSeq(pairs, Failed)
    IN  IF events = <<>> THEN [code |-> 1, failures |-> <<>>]
        ELSE IF failures # <<>> THEN [code |-> 2, failures |-> failures]
        ELSE [code |-> 0, failures |-> <<>>]

----------------------------------------------------------------------------
(* intelligence_layer.py: texts *)

\* K, R and slopes are in units of 1/KScale
KScale == 2 * 10000

\* A text is a sequence of words separated by single spaces, without leading
\* or trailing whitespace; the empty sequence is the empty text.  The words:
\*   "w480"    one alphanumeric word of 480 characters
\*   "done."   "ok."   a word followed by a full stop
\*   "Repeat"  "repeat"  "again"  "as"  "i"  "said"
\*   "t01" .. "t14"   fourteen distinct three-letter words
Fillers == {"t01", "t02", "t03", "t04", "t05", "t06", "t07",
            "t08", "t09", "t10", "t11", "t12", "t13", "t14"}

Words == {"w480", "done.", "ok.", "Repeat", "repeat", "again", "as", "i", "said"}
         \cup Fillers

\* len(word)
WordLen(w) ==
    CASE w = "w480" -> 480
      [] w = "done." -> 5
      [] w = "ok." -> 3
      [] w \in {"Repeat", "repeat"} -> 6
      [] w = "again" -> 5
      [] w = "as" -> 2
      [] w = "i" -> 1
      [] w = "said" -> 4
      [] w \in Fillers -> 3

\* word.lower()
Lower(w) == IF w = "Repeat" THEN "repeat" ELSE w

\* the leading run of \w characters of the lowercased word
Core(w) ==
    CASE w = "done." -> "done"
      [] w = "ok." -> "ok"
      [] OTHER -> Lower(w)

\* the word consists of \w characters only
PureWord(w) == w \notin {"done.", "ok."}

\* word.endswith((".", "!", "?"))
EndsTerminal(w) == w \in {"done.", "ok."}

\* occurrences of "again" and of "repeat" inside the lowercased word
WordSelfRef(w) == IF Lower(w) \in {"again", "repeat"} THEN 1 ELSE 0

\* len(text)
RECURSIVE SumWordLen(_)
SumWordLen(text) == IF text = <<>> THEN 0 ELSE WordLen(Head(text)) + SumWordLen(Tail(text))

TextLen(text) == IF text = <<>> THEN 0 ELSE SumWordLen(text) + Len(text) - 1

\* not text.strip()
Blank(text) == text = <<>>

\* set(text.lower().split())
Tokens(text) == {Lower(text[i]) : i \in DOMAIN text}

\* _RE_REPEAT.search(text.lower()): a word immediately repeated at least twice
RE_REPEAT(text) ==
    \E i \in DOMAIN text :
        /\ i + 2 <= Len(text)
        /\ PureWord(text[i]) /\ PureWord(text[i + 1])
        /\ Lower(text[i + 1]) = Lower(text[i])
        /\ Core(text[i + 2]) = Lower(text[i])

\* sum(t.count(x) for x in ("again", "repeat", "as i said"))
RECURSIVE SumSelfRef(_)
SumSelfRef(text) == IF text = <<>> THEN 0 ELSE WordSelfRef(Head(text)) + SumSelfRef(Tail(text))

SelfRef(text) ==
    SumSelfRef(text)
    + Cardinality({i \in DOMAIN text :
                      /\ i + 2 <= Len(text)
                      /\ Lower(text[i]) = "as"
                      /\ Lower(text[i + 1]) = "i"
                      /\ Core(text[i + 2]) = "said"})

\* mutant: the lower bound is not enforced
clamp01_no_floor(x) == Min(KScale, x)

clamp01(x) == Max(0, Min(KScale, x))

\* estimate_recursion(text)
estimate_recursion(text) ==
    LET repeats == IF RE_REPEAT(text) THEN KScale ELSE 0
    IN  clamp01((6 * repeats) \div 10 + (SelfRef(text) * KScale) \div 10)

\* estimate_coherence(text), given the token set remembered by the previous
\* non-blank call: the result and the token set remembered afterwards
estimate_coherence(text, last) ==
    IF Blank(text) THEN [K |-> 0, last_tokens |-> last]
    ELSE
        LET closure == IF EndsTerminal(text[Len(text)]) THEN KScale ELSE KScale \div 2
            length_factor == clamp01(((TextLen(text) - 80) * KScale) \div 400)
            tokens == Tokens(text)
            overlap == Cardinality(tokens \cap last)
            soft_penalty == (clamp01((overlap * KScale) \div 20) * 15) \div 100
            hard_penalty == IF RE_REPEAT(text) THEN (2 * KScale) \div 10 ELSE 0
            repeat_penalty == soft_penalty + hard_penalty
        IN  [K |-> clamp01((6 * closure) \div 10 + (4 * length_factor) \div 10 - repeat_penalty),
             last_tokens |-> tokens]

----------------------------------------------------------------------------
(* intelligence_layer.py: session state *)

\* ILState(cooldown_min_turns=min_turns), the other fields at their defaults
ILState(min_turns) ==
    [K_t |-> KScale,
     R_t |-> 0,
     K_hist |-> <<>>,
     R_hist |-> <<>>,
     Kt_slope_2 |-> 0,
     turn_index |-> 0,
     cooldown_active |-> FALSE,
     cooldown_turns_left |-> 0,
     cooldown_exit_K |-> (9 * KScale) \div 10,
     cooldown_min_turns |-> min_turns,
     last_segment_turn |-> -10,
     invariants |-> EmptyDict,
     trace_hash |-> <<>>]

\* mutant: the slice keeps the oldest n entries
LastN_keeps_oldest(lst, n) == IF Len(lst) <= n THEN lst ELSE SubSeq(lst, 1, n)

\* lst[-n:]
LastN(lst, n) == IF Len(lst) <= n THEN lst ELSE SubSeq(lst, Len(lst) - n + 1, Len(lst))

\* lst[:n]
FirstN(lst, n) == IF Len(lst) <= n THEN lst ELSE SubSeq(lst, 1, n)

\* mutant: the digest covers the coherence history and the turn only
TraceHash_without_R(K_hist, R_hist, turn_index) == <<"K", K_hist, "t", turn_index>>

\* sha256(json.dumps({"K":..,"R":..,"t":..}, sort_keys=True)).hexdigest()[:16],
\* the digest taken as injective: it is represented by the serialized triple
TraceHash(K_hist, R_hist, turn_index) == <<"K", K_hist, "R", R_hist, "t", turn_index>>

\* mutant: the remaining-turns test reads the counter before the decrement
CooldownStep_test_before_decrement(s) ==
    IF s.cooldown_active
    THEN LET left == s.cooldown_turns_left - 1
             served == (s.turn_index - s.last_segment_turn) >= s.cooldown_min_turns
         IN  [s EXCEPT !.cooldown_turns_left = left,
                       !.cooldown_active =
                           ~(served /\ s.cooldown_turns_left <= 0
                                    /\ s.K_t >= s.cooldown_exit_K)]
    ELSE s

\* mutant: cooldown ends on the turn count alone, whatever the coherence
CooldownStep_ignores_K(s) ==
    IF s.cooldown_active
    THEN LET left == s.cooldown_turns_left - 1
             served == (s.turn_index - s.last_segment_turn) >= s.cooldown_min_turns
         IN  [s EXCEPT !.cooldown_turns_left = left,
                       !.cooldown_active = ~(served /\ left <= 0)]
    ELSE s

\* mutant: cooldown ends when the coherence is at or below the exit bar
CooldownStep_exit_below_K(s) ==
    IF s.cooldown_active
    THEN LET left == s.cooldown_turns_left - 1
             served == (s.turn_index - s.last_segment_turn) >= s.cooldown_min_turns
         IN  [s EXCEPT !.cooldown_turns_left = left,
                       !.cooldown_active =
                           ~(served /\ left <= 0 /\ s.K_t <= s.cooldown_exit_K)]
    ELSE s

\* the cooldown block of update_state, applied to the state s whose other
\* fields are already updated
CooldownStep(s) ==
    IF s.cooldown_active
    THEN LET left == s.cooldown_turns_left - 1
             served == (s.turn_index - s.last_segment_turn) >= s.cooldown_min_turns
         IN  [s EXCEPT !.cooldown_turns_left = left,
                       !.cooldown_active =
                           ~(served /\ left <= 0 /\ s.K_t >= s.cooldown_exit_K)]
    ELSE s

\* mutant: the slope is taken over the last two entries
slope_2_adjacent(K_hist) ==
    IF Len(K_hist) >= 3
    THEN (K_hist[Len(K_hist)] - K_hist[Len(K_hist) - 1]) \div 2
    ELSE 0

\* the 2-step slope of update_state: (K_hist[-1] - K_hist[-3]) / 2.0, or 0.0
slope_2(K_hist) ==
    IF Len(K_hist) >= 3
    THEN (K_hist[Len(K_hist)] - K_hist[Len(K_hist) - 2]) \div 2
    ELSE 0

\* update_state(state, text): the state and the remembered token set after
\* the call, and the returned metrics
update_state(s, last, text) ==
    LET est == estimate_coherence(text, last)
        K == est.K
        R == estimate_recursion(text)
        K_hist == LastN(Append(s.K_hist, K), 6)
        R_hist == LastN(Append(s.R_hist, R), 6)
        slope == slope_2(K_hist)
        s1 == [s EXCEPT !.turn_index = s.turn_index + 1,
                        !.K_hist = K_hist,
                        !.R_hist = R_hist,
                        !.Kt_slope_2 = slope,
                        !.K_t = K,
                        !.R_t = R,
                        !.trace_hash = TraceHash(K_hist, R_hist, s.turn_index + 1)]
        s2 == CooldownStep(s1)
    IN  [state |-> s2,
         last_tokens |-> est.last_tokens,
         metrics |-> [turn |-> s2.turn_index,
                      K_t |-> s2.K_t,
                      R_t |-> s2.R_t,
                      Kt_slope_2 |-> s2.Kt_slope_2,
                      cooldown |-> s2.cooldown_active,
                      trace_hash |-> s2.trace_hash]]

\* Trigger 1 of should_segment: accelerating coherence collapse
acceleration_trigger(s) ==
    s.Kt_slope_2 < -((15 * KScale) \div 100) /\ s.R_t > (80 * KScale) \div 100

\* mutant: only the last two history entries are examined
saturation_trigger_last_two(s) ==
    /\ s.R_t > (80 * KScale) \div 100
    /\ s.K_t < (45 * KScale) \div 100
    /\ Len(s.K_hist) >= 3
    /\ \A i \in DOMAIN LastN(s.K_hist, 2) :
           LastN(s.K_hist, 2)[i] < (45 * KScale) \div 100

\* Trigger 2 of should_segment: saturation in a bad basin
saturation_trigger(s) ==
    /\ s.R_t > (80 * KScale) \div 100
    /\ s.K_t < (45 * KScale) \div 100
    /\ Len(s.K_hist) >= 3
    /\ \A i \in DOMAIN LastN(s.K_hist, 3) :
           LastN(s.K_hist, 3)[i] < (45 * KScale) \div 100

\* mutant: in cooldown the saturation trigger passes without the stricter bar
should_segment_saturation_bypass(s) ==
    LET trigger == acceleration_trigger(s) \/ saturation_trigger(s)
    IN  IF s.cooldown_active
        THEN saturation_trigger(s) \/ (trigger /\ s.Kt_slope_2 < -((30 * KScale) \div 100))
        ELSE trigger

\* mutant: the stricter bar of the cooldown is the base bar of -0.15
should_segment_base_bar_in_cooldown(s) ==
    LET trigger == acceleration_trigger(s) \/ saturation_trigger(s)
    IN  IF s.cooldown_active
        THEN trigger /\ s.Kt_slope_2 < -((15 * KScale) \div 100)
        ELSE trigger

\* should_segment(state)
should_segment(s) ==
    LET trigger == acceleration_trigger(s) \/ saturation_trigger(s)
    IN  IF s.cooldown_active
        THEN trigger /\ s.Kt_slope_2 < -((30 * KScale) \div 100)
        ELSE trigger

\* line.strip().startswith(("-", "#")), a line being a sequence of characters
IsConstraintLine(line) ==
    extract_signal(line) # <<>> /\ Head(extract_signal(line)) \in {"-", "#"}

\* extract_invariants(buffer)
extract_invariants(buffer) ==
    LET recent == LastN(buffer, 8)
        kept == SelectSeq(recent, IsConstraintLine)
        keep == [i \in 1..Len(kept) |-> extract_signal(kept[i])]
    IN  [constraints |-> FirstN(keep, 10)]

\* mutant: the cooldown flag is flipped instead of set
segment_now_toggle(s, buffer) ==
    LET s1 == [s EXCEPT !.invariants = extract_invariants(buffer),
                        !.cooldown_active = ~s.cooldown_active,
                        !.cooldown_turns_left = 2,
                        !.last_segment_turn = s.turn_index]
    IN  [state |-> s1,
         seed |-> [reason |-> "LAST_RECOVERABLE_MOMENT",
                   turn |-> s1.turn_index,
                   K_t |-> s1.K_t,
                   R_t |-> s1.R_t,
                   Kt_slope_2 |-> s1.Kt_slope_2,
                   invariants |-> s1.invariants,
                   trace_hash |-> s1.trace_hash]]

\* mutant: the checkpoint also resets the slope
segment_now_resets_slope(s, buffer) ==
    LET s1 == [s EXCEPT !.invariants = extract_invariants(buffer),
                        !.cooldown_active = TRUE,
                        !.cooldown_turns_left = 2,
                        !.last_segment_turn = s.turn_index,
                        !.Kt_slope_2 = 0]
    IN  [state |-> s1,
         seed |-> [reason |-> "LAST_RECOVERABLE_MOMENT",
                   turn |-> s1.turn_index,
                   K_t |-> s1.K_t,
                   R_t |-> s1.R_t,
                   Kt_slope_2 |-> s1.Kt_slope_2,
                   invariants |-> s1.invariants,
                   trace_hash |-> s1.trace_hash]]

\* mutant: the cooldown counter starts at 3
segment_now_three_turns(s, buffer) ==
    LET s1 == [s EXCEPT !.invariants = extract_invariants(buffer),
                        !.cooldown_active = TRUE,
                        !.cooldown_turns_left = 3,
                        !.last_segment_turn = s.turn_index]
    IN  [state |-> s1,
         seed |-> [reason |-> "LAST_RECOVERABLE_MOMENT",
                   turn |-> s1.turn_index,
                   K_t |-> s1.K_t,
                   R_t |-> s1.R_t,
                   Kt_slope_2 |-> s1.Kt_slope_2,
                   invariants |-> s1.invariants,
                   trace_hash |-> s1.trace_hash]]

\* segment_now(state, buffer): the state after the call and the seed-pack
segment_now(s, buffer) ==
    LET s1 == [s EXCEPT !.invariants = extract_invariants(buffer),
                        !.cooldown_active = TRUE,
                        !.cooldown_turns_left = 2,
                        !.last_segment_turn = s.turn_index]
    IN  [state |-> s1,
         seed |-> [reason |-> "LAST_RECOVERABLE_MOMENT",
                   turn |-> s1.turn_index,
                   K_t |-> s1.K_t,
                   R_t |-> s1.R_t,
                   Kt_slope_2 |-> s1.Kt_slope_2,
                   invariants |-> s1.invariants,
                   trace_hash |-> s1.trace_hash]]

----------------------------------------------------------------------------
(* Inputs *)

\* longest session, in update_state calls
MaxTurns == 5

\* most process() calls on the gate
MaxCalls == 11

\* longest session in the history specification, in update_state calls
MaxHistoryTurns == 7

\* longest session in the two-session specification, in update_state calls
MaxPeerTurns == 2

\* most lines in a log handed to the verifier
MaxLines == 4

\* longest session in the estimator specification, in update_state calls
MaxEstimatorTurns == 2

\* most record() calls of one writer process
MaxRecords == 2

\* lines that come into the node store where repairs are checked
MaxNodeLines == 3

\* nodes appended, repairs and merging imports run by the processes at the
\* node store
MaxAppends == 2
MaxRepairs == 2
MaxImports == 1

\* most writes to the MemoryStore, and the latest time on its clock
MaxWrites == 2
MaxClock == 2

\* "" : blank, K = 0, R = 0
TextEmpty == <<>>
\* 486 characters ending in a full stop, K = 1.0 before the overlap penalty
TextLong == <<"w480", "done.">>
\* "Repeat repeat repeat": K = 0.1 before the overlap penalty, R = 0.9
TextLoop == <<"Repeat", "repeat", "repeat">>
\* "ok.": K = 0.6 before the overlap penalty, R = 0
TextOk == <<"ok.">>
\* "as": K = 0.3 before the overlap penalty, R = 0
TextAs == <<"as">>
\* "again": K = 0.3 before the overlap penalty, R = 0.1
TextAgain == <<"again">>
\* "Repeat repeat repeat again again": R = 0.6 + 0.5 before the clamp
TextLoud == <<"Repeat", "repeat", "repeat", "again", "again">>
\* 76 characters, 15 distinct tokens, a repeated word, no full stop: seen
\* twice in a row, K = 0.3 - 0.2 - 0.1125 before the clamp
TextFiller ==
    <<"t01", "t02", "t03", "t04", "t05", "t06", "t07",
      "t08", "t09", "t10", "t11", "t12", "t13", "t14",
      "Repeat", "repeat", "repeat">>

Texts == {TextEmpty, TextLong, TextLoop, TextOk}

\* transcript buffers handed to segment_now
BufferShort == << <<"-", "a">>, <<"x">>, <<" ", "#", "b", " ">> >>

Buffers == {<<>>, BufferShort}

\* values of cooldown_min_turns a session is constructed with (default 2)
MinTurnsChoices == {1, 2, 3}

\* texts given to the gate, as sequences of characters:
\* whitespace only; 13 characters, 1 distinct; 19 characters, 11 distinct,
\* surrounded by spaces
GateBlank == <<" ", " ">>
GateFlat == [i \in 1..13 |-> "a"]
GateRich == <<" ">> \o <<"a", "b", "c", "d", "e", "f", "g", "h", "i", "j", "k">>
                \o [i \in 1..8 |-> "a"] \o <<" ">>

GateTexts == {GateBlank, GateFlat, GateRich}

\* no process() result is waiting to be recorded
NoOut == [pending |-> FALSE]

----------------------------------------------------------------------------
(* The stores at rest *)

\* the processes that call instrumentation.record()
Writers == {"w1", "w2"}

\* no process has called record() yet
IdleWriters == [w \in Writers |-> [pc |-> "idle", calls |-> 0]]

\* MemoryStore() at time 0: _store is empty, nothing was written or read
NewMemoryStore ==
    [store |-> <<>>, now |-> 0, written |-> <<>>, writes |-> 0,
     omitted |-> {}, cleared |-> FALSE, clock_stepped_back |-> FALSE]

\* no node store file, the lock free, no command running, nothing appended
NewNodeStore ==
    [exists |-> FALSE, file |-> <<>>, lock |-> "free", next |-> 0,
     appended |-> {},
     appender |-> [pc |-> "idle"],
     doctor |-> [pc |-> "idle", kept |-> <<>>, runs |-> 0],
     importer |-> [pc |-> "idle", current |-> <<>>, runs |-> 0]]

InitStores ==
    /\ writers = IdleWriters
    /\ memory = NewMemoryStore
    /\ nodes = NewNodeStore

----------------------------------------------------------------------------
(* The session: update_state, should_segment and segment_now in any order *)

Init ==
    /\ state \in {ILState(m) : m \in MinTurnsChoices}
    /\ last_tokens = {}
    /\ ret = [op |-> "none"]
    /\ peer = ILState(2)
    /\ solo = [state |-> state, last_tokens |-> {}, ret |-> [op |-> "none"]]
    /\ trail = <<>>
    /\ gate = NewGate
    /\ out = NoOut
    /\ samples = <<>>
    /\ log = <<>>
    /\ log_exists = FALSE
    /\ call = [fn |-> "none"]
    /\ InitStores

\* update_state(state, text) on the session; solo makes the same call with
\* the token memory only this session has written
SessionTurn(text) ==
    LET r == update_state(state, last_tokens, text)
        q == update_state(solo.state, solo.last_tokens, text)
    IN  /\ state' = r.state
        /\ last_tokens' = r.last_tokens
        /\ ret' = [op |-> "update_state", val |-> r.metrics]
        /\ solo' = [state |-> q.state,
                    last_tokens |-> q.last_tokens,
                    ret |-> [op |-> "update_state", val |-> q.metrics]]
        /\ trail' = Append(trail, [K |-> r.state.K_t, R |-> r.state.R_t])

Update(text) ==
    /\ SessionTurn(text)
    /\ UNCHANGED <<storeVars, peer, gateVars, call>>

UpdateState(text) ==
    /\ state.turn_index < MaxTurns
    /\ Update(text)

ShouldSegment ==
    /\ ret' = [op |-> "should_segment", val |-> should_segment(state)]
    /\ solo' = [solo EXCEPT !.ret = [op |-> "should_segment",
                                      val |-> should_segment(solo.state)]]
    /\ UNCHANGED <<storeVars, state, last_tokens, peer, trail, gateVars, call>>

SegmentNow(buffer) ==
    /\ LET r == segment_now(state, buffer)
           q == segment_now(solo.state, buffer)
       IN  /\ state' = r.state
           /\ ret' = [op |-> "segment_now", val |-> r.seed]
           /\ solo' = [solo EXCEPT !.state = q.state,
                                   !.ret = [op |-> "segment_now", val |-> q.seed]]
    /\ UNCHANGED <<storeVars, last_tokens, peer, trail, gateVars, call>>

UpdateStep == \E text \in Texts : UpdateState(text)
SegmentStep == \E buffer \in Buffers : SegmentNow(buffer)

Next ==
    \/ UpdateStep
    \/ ShouldSegment
    \/ SegmentStep

Spec == Init /\ [][Next]_vars

----------------------------------------------------------------------------
(* A longer session on fewer inputs, long enough for the histories to      *)
(* overflow their capacity of 6                                             *)

HistoryTexts == {TextLong, TextLoop, TextOk}

InitHistory ==
    /\ state = ILState(2)
    /\ last_tokens = {}
    /\ ret = [op |-> "none"]
    /\ peer = ILState(2)
    /\ solo = [state |-> state, last_tokens |-> {}, ret |-> [op |-> "none"]]
    /\ trail = <<>>
    /\ gate = NewGate
    /\ out = NoOut
    /\ samples = <<>>
    /\ log = <<>>
    /\ log_exists = FALSE
    /\ call = [fn |-> "none"]
    /\ InitStores

HistoryUpdate(text) ==
    /\ state.turn_index < MaxHistoryTurns
    /\ Update(text)

HistoryUpdateStep == \E text \in HistoryTexts : HistoryUpdate(text)
HistorySegment == \E buffer \in Buffers : SegmentNow(buffer)

NextHistory ==
    \/ HistoryUpdateStep
    \/ ShouldSegment
    \/ HistorySegment

SpecHistory == InitHistory /\ [][NextHistory]_vars

----------------------------------------------------------------------------
(* Two sessions in one process: each is an ILState of its own, and both     *)
(* call the one module-level estimate_coherence                             *)

PeerTexts == {TextOk, TextAs, TextAgain}

SessionUpdate(text) ==
    /\ state.turn_index < MaxPeerTurns
    /\ Update(text)

\* update_state(peer, text): the second session's turn
PeerUpdate(text) ==
    /\ peer.turn_index < MaxPeerTurns
    /\ LET r == update_state(peer, last_tokens, text)
       IN  /\ peer' = r.state
           /\ last_tokens' = r.last_tokens
    /\ UNCHANGED <<storeVars, state, ret, solo, trail, gateVars, call>>

SessionUpdateStep == \E text \in PeerTexts : SessionUpdate(text)
PeerUpdateStep == \E text \in PeerTexts : PeerUpdate(text)

NextSessions ==
    \/ SessionUpdateStep
    \/ PeerUpdateStep
    \/ ShouldSegment
    \/ SegmentStep

SpecSessions == InitHistory /\ [][NextSessions]_vars

----------------------------------------------------------------------------
(* The estimators called directly and through update_state; call records   *)
(* the latest call, and carries the text of the latest estimate_coherence   *)
(* call (coherence_text, a list of at most one text)                        *)

EstimatorTexts == {TextEmpty, TextOk, TextLong, TextLoop, TextLoud, TextFiller}

EstimatorTurnTexts == {TextEmpty, TextOk}

\* the text of the preceding estimate_coherence call, if there was one
PrecedingText == Get(call, "coherence_text", <<>>)

\* estimate_coherence(text)
EstimateCoherence(text) ==
    /\ LET est == estimate_coherence(text, last_tokens)
       IN  /\ last_tokens' = est.last_tokens
           /\ call' = [fn |-> "estimate_coherence",
                       text |-> text,
                       preceding |-> PrecedingText,
                       coherence_text |-> <<text>>,
                       in_update |-> FALSE,
                       result |-> est.K]
    /\ UNCHANGED <<storeVars, state, ret, peer, solo, trail, gateVars>>

\* estimate_recursion(text)
EstimateRecursion(text) ==
    /\ call' = [fn |-> "estimate_recursion",
                text |-> text,
                coherence_text |-> PrecedingText,
                result |-> estimate_recursion(text)]
    /\ UNCHANGED <<storeVars, sessionVars, gateVars>>

\* IntelligenceGate.measure_entropy(extract_signal(text))
MeasureEntropy(text) ==
    /\ call' = [fn |-> "measure_entropy",
                text |-> text,
                coherence_text |-> PrecedingText,
                result |-> measure_entropy(extract_signal(text))]
    /\ UNCHANGED <<storeVars, sessionVars, gateVars>>

\* update_state(state, text), which calls estimate_coherence(text)
EstimatorTurn(text) ==
    /\ state.turn_index < MaxEstimatorTurns
    /\ SessionTurn(text)
    /\ call' = [fn |-> "estimate_coherence",
                text |-> text,
                preceding |-> PrecedingText,
                coherence_text |-> <<text>>,
                in_update |-> TRUE,
                result |-> estimate_coherence(text, last_tokens).K]
    /\ UNCHANGED <<storeVars, peer, gateVars>>

EstimateCoherenceStep == \E text \in EstimatorTexts : EstimateCoherence(text)
EstimateRecursionStep == \E text \in EstimatorTexts : EstimateRecursion(text)
MeasureEntropyStep == \E text \in GateTexts \cup {<<>>} : MeasureEntropy(text)
EstimatorTurnStep == \E text \in EstimatorTurnTexts : EstimatorTurn(text)

NextEstimators ==
    \/ EstimateCoherenceStep
    \/ EstimateRecursionStep
    \/ MeasureEntropyStep
    \/ EstimatorTurnStep

SpecEstimators == InitHistory /\ [][NextEstimators]_vars

----------------------------------------------------------------------------
(* should_segment on states a caller constructs (il_update rebuilds the     *)
(* ILState from caller-supplied JSON, so any field values can arrive)       *)

\* K values 0.30, 0.40, 0.45, 0.50
SegK == {(30 * KScale) \div 100, (40 * KScale) \div 100,
         (45 * KScale) \div 100, (50 * KScale) \div 100}

\* R values 0.80, 0.90
SegR == {(80 * KScale) \div 100, (90 * KScale) \div 100}

\* slopes -0.35, -0.30, -0.20, -0.15, -0.10, 0
SegSlope == {-((35 * KScale) \div 100), -((30 * KScale) \div 100),
             -((20 * KScale) \div 100), -((15 * KScale) \div 100),
             -((10 * KScale) \div 100), 0}

\* histories of 2 to 4 entries
SegHist == UNION {[1..n -> SegK] : n \in 2..4}

SegStates ==
    {[ILState(2) EXCEPT !.K_t = k, !.R_t = r, !.K_hist = h,
                        !.Kt_slope_2 = sl, !.cooldown_active = c] :
        k \in {(30 * KScale) \div 100, (45 * KScale) \div 100},
        r \in SegR, h \in SegHist, sl \in SegSlope, c \in BOOLEAN}

InitSegment ==
    /\ state \in SegStates
    /\ last_tokens = {}
    /\ ret = [op |-> "none"]
    /\ peer = ILState(2)
    /\ solo = [state |-> state, last_tokens |-> {}, ret |-> [op |-> "none"]]
    /\ trail = <<>>
    /\ gate = NewGate
    /\ out = NoOut
    /\ samples = <<>>
    /\ log = <<>>
    /\ log_exists = FALSE
    /\ call = [fn |-> "none"]
    /\ InitStores

NextSegment == ShouldSegment

SpecSegment == InitSegment /\ [][NextSegment]_vars

----------------------------------------------------------------------------
(* The gate and its log: process, then record of what process returned *)

InitGate ==
    /\ state = ILState(2)
    /\ last_tokens = {}
    /\ ret = [op |-> "none"]
    /\ peer = ILState(2)
    /\ solo = [state |-> state, last_tokens |-> {}, ret |-> [op |-> "none"]]
    /\ trail = <<>>
    /\ gate = NewGate
    /\ out = NoOut
    /\ samples = <<>>
    /\ log = <<>>
    /\ log_exists = FALSE
    /\ call = [fn |-> "none"]
    /\ InitStores

Process(text) ==
    /\ out = NoOut
    /\ Len(log) < MaxCalls
    /\ LET r == process(gate, text)
       IN  /\ gate' = r.gate
           /\ out' = [pending |-> TRUE, snapshot |-> r.snapshot, dampening |-> r.dampening]
    /\ samples' = Append(samples, measure_entropy(extract_signal(text)))
    /\ UNCHANGED <<storeVars, sessionVars, log, log_exists, call>>

Record ==
    /\ out # NoOut
    /\ log' = record(log, out.snapshot, out.dampening)
    /\ log_exists' = TRUE
    /\ out' = NoOut
    /\ UNCHANGED <<storeVars, sessionVars, gate, samples, call>>

ProcessStep == \E text \in GateTexts : Process(text)

NextGate ==
    \/ ProcessStep
    \/ Record

SpecGate == InitGate /\ [][NextGate]_vars

----------------------------------------------------------------------------
(* The verifier on logs of any content: the log is a file that outlives    *)
(* the process, and load_events reads whatever lines it holds               *)

\* a record as instrumentation.record writes it
ValidEvent ==
    [ts |-> 0, entropy |-> 5000, mean_entropy |-> 2500,
     active_constraints |-> <<>>, identity_pressure |-> 0, dampening |-> 10000]

LineValid == json_dumps(ValidEvent)
\* dampening = 1.5, otherwise valid
LineDampening == json_dumps([ValidEvent EXCEPT !.dampening = 15000])
\* entropy = 1.2 and mean_entropy = -0.0001
LineOutOfBounds == json_dumps([ValidEvent EXCEPT !.entropy = 12000, !.mean_entropy = -1])
\* no entropy, identity_pressure or active_constraints key; dampening = 0
LineMissingKeys == json_dumps([ts |-> 0, mean_entropy |-> 2500, dampening |-> 0])
\* a line json.loads rejects
LineGarbage == [text |-> "{\"ts\": 17"]

LogLines == {LineValid, LineDampening, LineOutOfBounds, LineMissingKeys, LineGarbage}

\* the file is created without content
CreateLog ==
    /\ ~log_exists
    /\ log_exists' = TRUE
    /\ UNCHANGED <<storeVars, sessionVars, gate, out, samples, log, call>>

\* a writer appends one line to the file, creating it if needed
WriteLine(line) ==
    /\ Len(log) < MaxLines
    /\ log' = Append(log, line)
    /\ log_exists' = TRUE
    /\ UNCHANGED <<storeVars, sessionVars, gate, out, samples, call>>

\* invariants.verify() on the file as it is
Verify ==
    /\ call' = [fn |-> "verify",
                exists |-> log_exists,
                log |-> log,
                result |-> verify(log_exists, log)]
    /\ UNCHANGED <<storeVars, sessionVars, gateVars>>

WriteStep == \E line \in LogLines : WriteLine(line)

NextVerify ==
    \/ CreateLog
    \/ WriteStep
    \/ Verify

SpecVerify == InitGate /\ [][NextVerify]_vars

----------------------------------------------------------------------------
(* Processes appending to the log: record() opens the file in append mode,  *)
(* writes one line and closes it.  The line leaves the process in one       *)
(* write, or, when the system accepts only part of it, in two.              *)

\* the line a writer appends
WriterLine(w) == json_dumps([ValidEvent EXCEPT !.ts = IF w = "w1" THEN 1 ELSE 2])

\* the first and the second part of a writer's line; neither parses alone
Fragment(w, part) == [fragment |-> part, of |-> w]

\* LOG.open("a")
RecordOpen(w) ==
    /\ writers[w].pc = "idle"
    /\ writers[w].calls < MaxRecords
    /\ writers' = [writers EXCEPT ![w].pc = "open", ![w].calls = @ + 1]
    /\ log_exists' = TRUE
    /\ UNCHANGED <<sessionVars, gate, out, samples, log, call, memory, nodes>>

\* f.write(...) and the close that flushes it: the whole line in one write
RecordWrite(w) ==
    /\ writers[w].pc = "open"
    /\ log' = Append(log, WriterLine(w))
    /\ writers' = [writers EXCEPT ![w].pc = "idle"]
    /\ UNCHANGED <<sessionVars, gate, out, samples, log_exists, call, memory, nodes>>

\* the flush writes only the first part of the line
RecordWriteShort(w) ==
    /\ writers[w].pc = "open"
    /\ log' = Append(log, Fragment(w, "head"))
    /\ writers' = [writers EXCEPT ![w].pc = "short"]
    /\ UNCHANGED <<sessionVars, gate, out, samples, log_exists, call, memory, nodes>>

\* the flush writes the rest of the line
RecordWriteRest(w) ==
    /\ writers[w].pc = "short"
    /\ log' = Append(log, Fragment(w, "tail"))
    /\ writers' = [writers EXCEPT ![w].pc = "idle"]
    /\ UNCHANGED <<sessionVars, gate, out, samples, log_exists, call, memory, nodes>>

RecordOpenStep == \E w \in Writers : RecordOpen(w)
RecordWriteStep == \E w \in Writers : RecordWrite(w)
RecordWriteShortStep == \E w \in Writers : RecordWriteShort(w)
RecordWriteRestStep == \E w \in Writers : RecordWriteRest(w)

NextWriters ==
    \/ RecordOpenStep
    \/ RecordWriteStep
    \/ RecordWriteShortStep
    \/ RecordWriteRestStep

SpecWriters == InitGate /\ [][NextWriters]_vars

----------------------------------------------------------------------------
(* The node store: one JSON document per line.  A line is modelled by what  *)
(* json.loads makes of it, and by an id that tells the lines apart.         *)

\* "node": a dict with id, ts and text;  "bare": a dict without them;
\* "scalar": a JSON value that is no dict and does not start with "[";
\* "list": a JSON array on one line;  "blank": whitespace only;
\* "garbage": no JSON, not starting with "[";  "bracket": no JSON, starting
\* with "["
LineKinds == {"node", "bare", "scalar", "list", "blank", "garbage", "bracket"}

NodeLine(kind, id) == [kind |-> kind, id |-> id]

\* json.loads(line) returns
Parses(line) == line.kind \in {"node", "bare", "scalar", "list"}

\* line.strip() is empty
BlankLine(line) == line.kind = "blank"

\* the lines that are not blank
NonBlank(file) == SelectSeq(file, LAMBDA line : ~BlankLine(line))

\* the first character of the file that is no whitespace: "" when there is
\* none, "[" or another one
first_nonws(file) ==
    IF NonBlank(file) = <<>> THEN ""
    ELSE IF Head(NonBlank(file)).kind \in {"list", "bracket"} THEN "["
    ELSE "other"

\* what the scans keep of a parsed line: a dict as it is, any other value
\* wrapped in a new dict with id, ts and text
Kept(line) ==
    IF line.kind \in {"node", "bare"} THEN line ELSE NodeLine("node", line.id)

\* write_nodes: every node is written as one line, with id, ts and text
\* added where they are missing
write_nodes(ns) == [i \in DOMAIN ns |-> NodeLine("node", ns[i].id)]

\* the line by line scan of doctor_repair: blank lines are skipped, a line
\* that parses is kept, any other is counted
ScanLines(file) ==
    LET good == SelectSeq(NonBlank(file), Parses)
    IN  [kept |-> [i \in DOMAIN good |-> Kept(good[i])],
         dropped |-> Len(NonBlank(file)) - Len(good)]

\* doctor_repair: a file that starts with "[" is read as one JSON document;
\* json.load raises on anything but one array, and on an array
\* isinstance(data, list) raises, list being the command of that name: the
\* outer handler returns (0, 0) and the store is not rewritten
doctor_repair(exists, file) ==
    IF ~exists THEN [result |-> <<0, 0>>, exists |-> FALSE, file |-> file]
    ELSE IF first_nonws(file) = "["
    THEN [result |-> <<0, 0>>, exists |-> TRUE, file |-> file]
    ELSE [result |-> <<Len(ScanLines(file).kept), ScanLines(file).dropped>>,
          exists |-> TRUE,
          file |-> write_nodes(ScanLines(file).kept)]

\* load_nodes: no file, a blank file and a file that starts with "[" give
\* no nodes; else every non-blank line gives one, a line that does not parse
\* a dict that carries it as text with parse_error
load_nodes(exists, file) ==
    IF ~exists \/ first_nonws(file) # "other" THEN <<>>
    ELSE [i \in DOMAIN NonBlank(file) |-> Kept(NonBlank(file)[i])]

\* a line comes into the store: from append_node, an editor, a torn write
StoreLine(kind) ==
    /\ nodes.next < MaxNodeLines
    /\ nodes' = [nodes EXCEPT !.exists = TRUE,
                              !.file = Append(@, NodeLine(kind, nodes.next + 1)),
                              !.next = @ + 1]
    /\ UNCHANGED <<sessionVars, gateVars, call, writers, memory>>

\* one whole run of doctor_repair, no other process at the store
DoctorRepair ==
    LET r == doctor_repair(nodes.exists, nodes.file)
    IN  /\ call' = [fn |-> "doctor_repair", exists |-> nodes.exists,
                    file |-> nodes.file, result |-> r.result,
                    after |-> r.file]
        /\ nodes' = [nodes EXCEPT !.exists = r.exists, !.file = r.file]
        /\ UNCHANGED <<sessionVars, gateVars, writers, memory>>

StoreLineStep == \E kind \in LineKinds : StoreLine(kind)

NextRepair ==
    \/ StoreLineStep
    \/ DoctorRepair

SpecRepair == InitGate /\ [][NextRepair]_vars

----------------------------------------------------------------------------
(* Processes at the node store: append_node, doctor_repair and              *)
(* import --merge, each a process of its own; the lock is the flock on the  *)
(* store's lock file.                                                       *)

\* the nodes of the imported file
Incoming == <<NodeLine("node", 100)>>

\* append_node: _FileLock.__enter__
AppendNodeLock ==
    /\ nodes.appender.pc = "idle"
    /\ nodes.next < MaxAppends
    /\ nodes.lock = "free"
    /\ nodes' = [nodes EXCEPT !.lock = "append_node", !.appender.pc = "locked"]
    /\ UNCHANGED <<sessionVars, gateVars, call, writers, memory>>

\* append_node: the line is appended and the lock released
AppendNodeWrite ==
    /\ nodes.appender.pc = "locked"
    /\ nodes' = [nodes EXCEPT !.exists = TRUE,
                              !.file = Append(@, NodeLine("node", nodes.next + 1)),
                              !.next = @ + 1,
                              !.appended = @ \cup {nodes.next + 1},
                              !.lock = "free",
                              !.appender.pc = "idle"]
    /\ UNCHANGED <<sessionVars, gateVars, call, writers, memory>>

\* doctor_repair reads the store, holding no lock; it returns at once when
\* there is no file or the read raises
DoctorRead ==
    /\ nodes.doctor.pc = "idle"
    /\ nodes.doctor.runs < MaxRepairs
    /\ IF ~nodes.exists \/ first_nonws(nodes.file) = "["
       THEN nodes' = [nodes EXCEPT !.doctor.runs = @ + 1]
       ELSE nodes' = [nodes EXCEPT !.doctor.pc = "scanned",
                                   !.doctor.kept = ScanLines(nodes.file).kept]
    /\ UNCHANGED <<sessionVars, gateVars, call, writers, memory>>

\* doctor_repair: write_nodes takes the lock
DoctorLock ==
    /\ nodes.doctor.pc = "scanned"
    /\ nodes.lock = "free"
    /\ nodes' = [nodes EXCEPT !.lock = "doctor_repair", !.doctor.pc = "locked"]
    /\ UNCHANGED <<sessionVars, gateVars, call, writers, memory>>

\* doctor_repair: write_nodes truncates the store, writes what was kept and
\* releases the lock
DoctorWrite ==
    /\ nodes.doctor.pc = "locked"
    /\ nodes' = [nodes EXCEPT !.exists = TRUE,
                              !.file = write_nodes(nodes.doctor.kept),
                              !.lock = "free",
                              !.doctor = [pc |-> "idle", kept |-> <<>>,
                                          runs |-> @.runs + 1]]
    /\ UNCHANGED <<sessionVars, gateVars, call, writers, memory>>

\* import --merge: current = load_nodes(), holding no lock
ImportRead ==
    /\ nodes.importer.pc = "idle"
    /\ nodes.importer.runs < MaxImports
    /\ nodes' = [nodes EXCEPT !.importer.pc = "loaded",
                              !.importer.current =
                                  load_nodes(nodes.exists, nodes.file)]
    /\ UNCHANGED <<sessionVars, gateVars, call, writers, memory>>

\* import --merge: write_nodes takes the lock
ImportLock ==
    /\ nodes.importer.pc = "loaded"
    /\ nodes.lock = "free"
    /\ nodes' = [nodes EXCEPT !.lock = "import_nodes", !.importer.pc = "locked"]
    /\ UNCHANGED <<sessionVars, gateVars, call, writers, memory>>

\* import --merge: write_nodes(current + incoming), the lock released
ImportWrite ==
    /\ nodes.importer.pc = "locked"
    /\ nodes' = [nodes EXCEPT !.exists = TRUE,
                              !.file = write_nodes(nodes.importer.current
                                                   \o Incoming),
                              !.lock = "free",
                              !.importer = [pc |-> "idle", current |-> <<>>,
                                            runs |-> @.runs + 1]]
    /\ UNCHANGED <<sessionVars, gateVars, call, writers, memory>>

NextNodeStore ==
    \/ AppendNodeLock
    \/ AppendNodeWrite
    \/ DoctorRead
    \/ DoctorLock
    \/ DoctorWrite
    \/ ImportRead
    \/ ImportLock
    \/ ImportWrite

SpecNodeStore == InitGate /\ [][NextNodeStore]_vars

----------------------------------------------------------------------------
(* MemoryStore: write, read and clear under the clock of time.time().       *)
(* memory.store is _store; written, omitted, cleared and clock_stepped_back *)
(* are history: the entries written since the last clear, the entries a    *)
(* read has left out, whether nothing was written since the last clear,    *)
(* and whether the clock ever went back.                                    *)

\* ttl_seconds of the writes
TTLs == {-1, 0, 1, 2}

\* write: the entry with expires_at = time.time() + ttl_seconds is appended;
\* ttl is kept with the entry to tell how it was written
write(store, now, content, ttl_seconds) ==
    Append(store, [content |-> content, expires_at |-> now + ttl_seconds,
                   ttl |-> ttl_seconds])

\* read: the entries with expires_at > now, in their order
read_keeps_due(store, now) ==
    SelectSeq(store, LAMBDA m : m.expires_at >= now)

read(store, now) == SelectSeq(store, LAMBDA m : m.expires_at > now)

MemoryWrite(ttl_seconds) ==
    /\ memory.writes < MaxWrites
    /\ memory' = [memory EXCEPT
           !.store = write(@, memory.now, memory.writes + 1, ttl_seconds),
           !.written = write(@, memory.now, memory.writes + 1, ttl_seconds),
           !.writes = @ + 1,
           !.cleared = FALSE]
    /\ UNCHANGED <<sessionVars, gateVars, call, writers, nodes>>

\* read returns a copy of what it keeps in _store
MemoryRead ==
    LET result == read(memory.store, memory.now)
        returned == {result[i].content : i \in DOMAIN result}
    IN  /\ call' = [fn |-> "read", now |-> memory.now,
                    written |-> memory.written, omitted |-> memory.omitted,
                    cleared |-> memory.cleared,
                    clock_stepped_back |-> memory.clock_stepped_back,
                    result |-> result, store |-> result]
        /\ memory' = [memory EXCEPT
               !.store = result,
               !.omitted = @ \cup ({memory.written[i].content :
                                       i \in DOMAIN memory.written} \ returned)]
        /\ UNCHANGED <<sessionVars, gateVars, writers, nodes>>

MemoryClear ==
    /\ memory' = [memory EXCEPT
           !.store = <<>>,
           !.omitted = @ \cup {memory.written[i].content :
                                  i \in DOMAIN memory.written},
           !.written = <<>>,
           !.cleared = TRUE]
    /\ UNCHANGED <<sessionVars, gateVars, call, writers, nodes>>

\* time passes
ClockTick ==
    /\ memory.now < MaxClock
    /\ memory' = [memory EXCEPT !.now = @ + 1]
    /\ UNCHANGED <<sessionVars, gateVars, call, writers, nodes>>

\* the system clock is set back: time.time() is the wall clock
ClockStepBack ==
    /\ memory.now > 0
    /\ memory' = [memory EXCEPT !.now = @ - 1, !.clock_stepped_back = TRUE]
    /\ UNCHANGED <<sessionVars, gateVars, call, writers, nodes>>

MemoryWriteStep == \E ttl_seconds \in TTLs : MemoryWrite(ttl_seconds)

NextMemory ==
    \/ MemoryWriteStep
    \/ MemoryRead
    \/ MemoryClear
    \/ ClockTick
    \/ ClockStepBack

SpecMemory == InitGate /\ [][NextMemory]_vars

----------------------------------------------------------------------------
(* The decision functions on drawn arguments *)

\* confidences, in thousandths
Confidences == {0, 400, 749, 750, 751, 1000}

\* thresholds, in thousandths
Thresholds == {500, DEFAULT_CONFIDENCE_THRESHOLD, 1000}

StatusDicts ==
    {EmptyDict, [status |-> "CLEAN"], [status |-> "VIOLATION"],
     [status |-> "UNVERIFIABLE"], [status |-> "clean"]}

Policies ==
    {None, EmptyDict, [allow_action |-> TRUE], [allow_action |-> FALSE],
     [mode |-> "observe"]}

\* mean entropies, in units of 1/10000
MeanEntropies == {-2500, 0, 2999, 3000, 3001, 7500, 10000, 12000}

\* entropies of the last text alone, in units of 1/10000
LastEntropies == {0, 9000}

\* capability lists
Capabilities == {<<>>, <<"shell">>, <<"read", "write">>}

\* execution modes
Modes == {"dry-run", "execute", "Execute", ""}

Snapshots ==
    {None, EmptyDict}
    \cup {[mean_entropy |-> m, active_constraints |-> a] :
            m \in MeanEntropies, a \in {<<>>, <<"stabilize">>}}
    \cup {[mean_entropy |-> m] : m \in MeanEntropies}
    \cup {[entropy |-> e, mean_entropy |-> m, active_constraints |-> <<"stabilize">>] :
            e \in LastEntropies, m \in MeanEntropies}

MayAct(confidence, invariant_status, policy_snapshot, threshold) ==
    /\ call' = [fn |-> "may_act",
                confidence |-> confidence,
                invariant_status |-> invariant_status,
                policy_snapshot |-> policy_snapshot,
                threshold |-> threshold,
                result |-> may_act(confidence, invariant_status, policy_snapshot, threshold)]
    /\ UNCHANGED <<storeVars, sessionVars, gateVars>>

ComputeConfidence(gate_snapshot, invariant_status) ==
    /\ call' = [fn |-> "compute_confidence",
                gate_snapshot |-> gate_snapshot,
                invariant_status |-> invariant_status,
                result |-> compute_confidence(gate_snapshot, invariant_status)]
    /\ UNCHANGED <<storeVars, sessionVars, gateVars>>

\* may_execute with all three arguments given
MayExecute(capabilities, mode, operator_ok) ==
    /\ call' = [fn |-> "may_execute",
                capabilities |-> capabilities,
                mode |-> mode,
                operator_ok |-> operator_ok,
                defaults |-> FALSE,
                result |-> may_execute(capabilities, mode, operator_ok)]
    /\ UNCHANGED <<storeVars, sessionVars, gateVars>>

\* may_execute(capabilities): mode and operator_ok at their defaults
MayExecuteDefaults(capabilities) ==
    /\ call' = [fn |-> "may_execute",
                capabilities |-> capabilities,
                mode |-> "dry-run",
                operator_ok |-> FALSE,
                defaults |-> TRUE,
                result |-> may_execute(capabilities, "dry-run", FALSE)]
    /\ UNCHANGED <<storeVars, sessionVars, gateVars>>

MayActStep ==
    \E c \in Confidences, st \in StatusDicts, p \in Policies, t \in Thresholds :
        MayAct(c, st, p, t)

ComputeConfidenceStep ==
    \E sn \in Snapshots, st \in StatusDicts \cup {None} : ComputeConfidence(sn, st)

MayExecuteStep ==
    \E c \in Capabilities, m \in Modes, ok \in BOOLEAN : MayExecute(c, m, ok)

MayExecuteDefaultsStep == \E c \in Capabilities : MayExecuteDefaults(c)

NextCalls ==
    \/ MayActStep
    \/ ComputeConfidenceStep
    \/ MayExecuteStep
    \/ MayExecuteDefaultsStep

SpecCalls == InitGate /\ [][NextCalls]_vars

----------------------------------------------------------------------------
(* Properties of may_act and compute_confidence (SpecCalls) *)

\* C1: whenever invariant_status's status is not "CLEAN", a missing status
\* included, may_act returns DENY "invariants not clean", whatever the
\* confidence, the threshold and the policy_snapshot are.
C1_DenyWhenNotClean ==
    (call.fn = "may_act" /\ Get(call.invariant_status, "status", NoneStr) # "CLEAN")
        => call.result = [decision |-> "DENY", reason |-> "invariants not clean"]

\* a full-confidence call with a permitting policy and no status was denied
C1_Witness ==
    /\ call.fn = "may_act"
    /\ call.invariant_status = EmptyDict
    /\ call.confidence = 1000
    /\ call.threshold = 500
    /\ call.policy_snapshot = [allow_action |-> TRUE]
    /\ call.result.decision = "DENY"

\* the policy snapshot is present and disallows action
PolicyProhibits(p) == p # None /\ "allow_action" \in DOMAIN p /\ ~p.allow_action

\* C7: may_act reports the first failing check in the order invariants,
\* confidence, policy, and returns ALLOW "all thresholds satisfied" exactly
\* when none fails; a confidence equal to the threshold passes.
C7_FirstFailingCheck ==
    call.fn = "may_act" =>
        LET unclean == Get(call.invariant_status, "status", NoneStr) # "CLEAN"
            low == call.confidence < call.threshold
            prohibited == PolicyProhibits(call.policy_snapshot)
        IN  /\ call.result.decision \in {"ALLOW", "DENY"}
            /\ unclean => call.result.reason = "invariants not clean"
            /\ (~unclean /\ low) => call.result.reason = "confidence below threshold"
            /\ (~unclean /\ ~low /\ prohibited)
                   => call.result.reason = "policy prohibits action"
            /\ (call.result.decision = "ALLOW") <=> (~unclean /\ ~low /\ ~prohibited)
            /\ (call.result.decision = "ALLOW")
                   => call.result.reason = "all thresholds satisfied"

\* a call with confidence equal to the default threshold was allowed
C7_Witness ==
    /\ call.fn = "may_act"
    /\ call.confidence = DEFAULT_CONFIDENCE_THRESHOLD
    /\ call.threshold = DEFAULT_CONFIDENCE_THRESHOLD
    /\ call.invariant_status = [status |-> "CLEAN"]
    /\ call.policy_snapshot = [mode |-> "observe"]
    /\ call.result.decision = "ALLOW"

\* the status dict carries a status other than "CLEAN"
StatusNotClean(st) == st # None /\ "status" \in DOMAIN st /\ st.status # "CLEAN"

\* C8: compute_confidence returns exactly 0.0 whenever the invariant status
\* is not clean, for every gate snapshot.
C8_ZeroWhenNotClean ==
    (call.fn = "compute_confidence" /\ StatusNotClean(call.invariant_status))
        => call.result = 0

\* a zero-entropy, unstabilized snapshot scored 0 under a VIOLATION status
C8_Witness ==
    /\ call.fn = "compute_confidence"
    /\ call.gate_snapshot = [mean_entropy |-> 0, active_constraints |-> <<>>]
    /\ call.invariant_status = [status |-> "VIOLATION"]
    /\ call.result = 0

----------------------------------------------------------------------------
(* Properties of the cooldown hysteresis (Spec) *)

\* the three exit conditions of the cooldown block, on a state s
ExitConditions(s) ==
    /\ (s.turn_index - s.last_segment_turn) >= s.cooldown_min_turns
    /\ s.cooldown_turns_left <= 0
    /\ s.K_t >= s.cooldown_exit_K

\* C2: an update_state entered with cooldown_active true decrements
\* cooldown_turns_left by exactly 1 and clears cooldown_active in that call
\* if and only if all three exit conditions hold on the post-update values;
\* if any one fails, cooldown_active stays true.
C2_CooldownExit ==
    [][(UpdateStep /\ state.cooldown_active) =>
          /\ state'.cooldown_turns_left = state.cooldown_turns_left - 1
          /\ state'.cooldown_active <=> ~ExitConditions(state')]_vars

\* the second update after a segment_now has just cleared the cooldown
C2_Witness ==
    /\ ret.op = "update_state"
    /\ ~state.cooldown_active
    /\ state.last_segment_turn >= 0
    /\ state.turn_index - state.last_segment_turn = 2
    /\ state.cooldown_turns_left = 0

\* C3: cooldown_active goes from false to true only inside segment_now and
\* from true to false only inside update_state; update_state never turns it
\* on, segment_now never turns it off, should_segment never changes it.
C3_CooldownTransitions ==
    [][/\ (~state.cooldown_active /\ state'.cooldown_active) => SegmentStep
       /\ (state.cooldown_active /\ ~state'.cooldown_active) => UpdateStep
       /\ UpdateStep => (state'.cooldown_active => state.cooldown_active)
       /\ SegmentStep => state'.cooldown_active
       /\ ShouldSegment => (state'.cooldown_active = state.cooldown_active)]_vars

\* segment_now has switched the cooldown on in a session that has run for
\* some turns
C3_Witness ==
    /\ ret.op = "segment_now"
    /\ state.cooldown_active
    /\ state.cooldown_turns_left = 2
    /\ state.last_segment_turn = state.turn_index
    /\ state.turn_index >= 3

\* C6: with the default settings (cooldown_min_turns = 2, cooldown_exit_K =
\* 0.90), after segment_now at turn T the cooldown is still active after the
\* update at turn T+1, is never cleared by an update whose K_t < 0.90, and is
\* cleared by any update at a turn >= T+2 whose K_t >= 0.90.
C6_CooldownHysteresis ==
    [][(/\ UpdateStep
        /\ state.cooldown_active
        /\ state.cooldown_min_turns = 2
        /\ state.cooldown_exit_K = (90 * KScale) \div 100) =>
          /\ (state'.turn_index = state.last_segment_turn + 1) => state'.cooldown_active
          /\ (state'.K_t < (90 * KScale) \div 100) => state'.cooldown_active
          /\ (/\ state'.turn_index >= state.last_segment_turn + 2
              /\ state'.K_t >= (90 * KScale) \div 100) => ~state'.cooldown_active]_vars

\* a default-configured cooldown has outlasted four updates because K_t
\* stayed below 0.90
C6_Witness ==
    /\ ret.op = "update_state"
    /\ state.cooldown_min_turns = 2
    /\ state.cooldown_active
    /\ state.last_segment_turn >= 0
    /\ state.turn_index - state.last_segment_turn >= 4
    /\ state.cooldown_turns_left <= -2

----------------------------------------------------------------------------
(* Properties of should_segment (SpecSegment) *)

\* the claim's base condition, on a state s
C4_Base(s) ==
    \/ (s.Kt_slope_2 < -((15 * KScale) \div 100) /\ s.R_t > (80 * KScale) \div 100)
    \/ /\ s.R_t > (80 * KScale) \div 100
       /\ s.K_t < (45 * KScale) \div 100
       /\ Len(s.K_hist) >= 3
       /\ \A i \in (Len(s.K_hist) - 2)..Len(s.K_hist) :
              s.K_hist[i] < (45 * KScale) \div 100

\* C4: should_segment(state) is true exactly when base holds and
\* (cooldown_active is false or Kt_slope_2 < -0.30); a state in cooldown
\* with Kt_slope_2 = -0.20 yields false; no field of the state is changed.
C4_ShouldSegment ==
    /\ [](ret.op = "should_segment" =>
            /\ ret.val <=> (C4_Base(state) /\ (~state.cooldown_active
                                \/ state.Kt_slope_2 < -((30 * KScale) \div 100)))
            /\ (state.cooldown_active /\ state.Kt_slope_2 = -((20 * KScale) \div 100))
                   => ~ret.val)
    /\ [][ShouldSegment => state' = state]_vars

\* should_segment returned false in cooldown at slope -0.20 on a state whose
\* base condition holds
C4_Witness ==
    /\ ret.op = "should_segment"
    /\ state.cooldown_active
    /\ state.Kt_slope_2 = -((20 * KScale) \div 100)
    /\ C4_Base(state)
    /\ ~ret.val

\* the state of the claim C5: K_hist = [0.5, 0.4, 0.3], R_t = 0.9,
\* K_t = 0.3, cooldown inactive
C5_State(s) ==
    /\ s.K_hist = <<(50 * KScale) \div 100, (40 * KScale) \div 100, (30 * KScale) \div 100>>
    /\ s.R_t = (90 * KScale) \div 100
    /\ s.K_t = (30 * KScale) \div 100
    /\ ~s.cooldown_active

\* C5 as stated: on that state should_segment returns true through the
\* saturation trigger.
C5_Original ==
    (ret.op = "should_segment" /\ C5_State(state))
        => (ret.val /\ saturation_trigger(state))

\* C5 as amended: on that state the saturation trigger is false, because the
\* entry 0.5 is not below 0.45, and should_segment returns true only through
\* the acceleration trigger, i.e. exactly when Kt_slope_2 < -0.15; with the
\* slope -0.10 that update_state derives from this history it returns false.
\* With K_hist = [0.4, 0.4, 0.3] and the other fields the same it returns
\* true through the saturation trigger.
C5_Amended ==
    /\ (ret.op = "should_segment" /\ C5_State(state)) =>
          /\ ~saturation_trigger(state)
          /\ ret.val <=> (state.Kt_slope_2 < -((15 * KScale) \div 100))
          /\ (state.Kt_slope_2 = -((10 * KScale) \div 100)) => ~ret.val
    /\ (/\ ret.op = "should_segment"
        /\ state.K_hist = <<(40 * KScale) \div 100, (40 * KScale) \div 100,
                            (30 * KScale) \div 100>>
        /\ state.R_t = (90 * KScale) \div 100
        /\ state.K_t = (30 * KScale) \div 100
        /\ ~state.cooldown_active) =>
          (ret.val /\ saturation_trigger(state))

\* should_segment returned false on the claim's state with the slope -0.10
C5_Witness ==
    /\ ret.op = "should_segment"
    /\ C5_State(state)
    /\ state.Kt_slope_2 = -((10 * KScale) \div 100)
    /\ ~ret.val

----------------------------------------------------------------------------
(* Properties of the gate and its log (SpecGate) *)

\* the events of the log carry the stabilize tag / do not carry it
LoggedStabilized == {i \in DOMAIN log : InList("stabilize", log[i].json.active_constraints)}
LoggedCalm == {i \in DOMAIN log : log[i].json.active_constraints = <<>>}

\* C9: every (snapshot, dampening) emitted by process has entropy and
\* mean_entropy in [0,1], dampening in (0,1], active_constraints a list
\* holding at most the tag "stabilize", and identity_pressure present and 0;
\* a log written only by record(process(text)) never yields a violation of
\* any of the five INVARIANTS predicates.
C9_EmittedWithinBounds ==
    /\ out.pending =>
          /\ 0 <= out.snapshot.entropy /\ out.snapshot.entropy <= 10000
          /\ 0 <= out.snapshot.mean_entropy /\ out.snapshot.mean_entropy <= 10000
          /\ 0 < out.dampening /\ out.dampening <= 10000
          /\ Len(out.snapshot.active_constraints) <= 1
          /\ \A i \in DOMAIN out.snapshot.active_constraints :
                 out.snapshot.active_constraints[i] = "stabilize"
          /\ "identity_pressure" \in DOMAIN out.snapshot
          /\ out.snapshot.identity_pressure = 0
    /\ verify(log_exists, log).code # 2
    /\ verify(log_exists, log).failures = <<>>
    /\ \A i \in DOMAIN log : \A n \in DOMAIN InvariantNames :
           Rule(InvariantNames[n], json_loads(log[i])) = "ok"

\* a log holding stabilized and calm records alike verifies CLEAN
C9_Witness ==
    /\ Len(log) >= 3
    /\ LoggedStabilized # {}
    /\ LoggedCalm # {}
    /\ verify(log_exists, log).code = 0

\* the stabilize tag is in the emitted snapshot
Stabilized == InList("stabilize", out.snapshot.active_constraints)

----------------------------------------------------------------------------
(* Properties of the entropy window (SpecGate) *)

\* the last min(10, N) of the N entropy samples measured so far
RecentSamples == LastN(samples, Min(WINDOW_SIZE, Len(samples)))

\* the window holds at most 10 samples, the most recent ones in arrival
\* order: the oldest is evicted first
WindowIsRecent ==
    /\ Len(gate.entropy_window) <= WINDOW_SIZE
    /\ gate.entropy_window = RecentSamples

\* C11 as stated: after N >= 1 calls to process the mean_entropy of the N-th
\* snapshot equals the arithmetic mean of the last min(10, N) entropy
\* samples; the window never holds more than 10 samples and evicts the
\* oldest first.
C11_Original ==
    /\ WindowIsRecent
    /\ out.pending =>
          out.snapshot.mean_entropy * EntScale * Len(RecentSamples)
              = SumSeq(RecentSamples) * 10000

\* C11 as amended: after N >= 1 calls to process the mean_entropy of the
\* N-th snapshot equals the arithmetic mean of the last min(10, N) entropy
\* samples rounded to 4 decimals; the window never holds more than 10
\* samples and evicts the oldest first.
C11_Amended ==
    /\ WindowIsRecent
    /\ out.pending =>
          out.snapshot.mean_entropy
              = RoundDiv(SumSeq(RecentSamples) * 10000, EntScale * Len(RecentSamples))

\* the eleventh call has evicted a sample that differs from the newest one
C11_Witness ==
    /\ out.pending
    /\ Len(samples) > WINDOW_SIZE
    /\ Head(samples) # samples[Len(samples)]
    /\ SumSeq(RecentSamples) # SumSeq(FirstN(samples, WINDOW_SIZE))

----------------------------------------------------------------------------
(* Properties of the session's histories (SpecHistory, Spec) *)

\* the last min(cap, n) of the n values computed so far, in arrival order
RecentK(cap) ==
    LET n == Len(trail)
        m == Min(cap, n)
    IN  [i \in 1..m |-> trail[n - m + i].K]

RecentR(cap) ==
    LET n == Len(trail)
        m == Min(cap, n)
    IN  [i \in 1..m |-> trail[n - m + i].R]

\* C12: after n >= 0 update_state calls on a fresh session, with any
\* should_segment and segment_now calls interleaved, turn_index is n, and
\* K_hist and R_hist both have length min(6, n) and hold exactly the most
\* recent K and R values in arrival order, the oldest evicted first.
C12_HistoriesAreRecent ==
    /\ state.turn_index = Len(trail)
    /\ Len(state.K_hist) = Min(6, Len(trail))
    /\ Len(state.R_hist) = Len(state.K_hist)
    /\ state.K_hist = RecentK(6)
    /\ state.R_hist = RecentR(6)

\* after a segmentation and more than 6 updates, the evicted first value
\* differs from the oldest value still held
C12_Witness ==
    /\ Len(trail) > 6
    /\ state.last_segment_turn > 0
    /\ trail[1].K # state.K_hist[1]
    /\ trail[1].R # state.R_hist[1]

\* C13: after every update_state, Kt_slope_2 is (K_hist[-1] - K_hist[-3]) / 2
\* when the history has at least 3 entries and 0 otherwise; two updates on a
\* fresh state leave K_hist of length 2 and Kt_slope_2 = 0.
C13_SlopeOverTwoSteps ==
    /\ ret.op = "update_state" =>
          LET h == state.K_hist
          IN  /\ Len(h) >= 3 => 2 * state.Kt_slope_2 = h[Len(h)] - h[Len(h) - 2]
              /\ Len(h) < 3 => state.Kt_slope_2 = 0
              /\ ret.val.Kt_slope_2 = state.Kt_slope_2
    /\ Len(trail) = 2 => (Len(state.K_hist) = 2 /\ state.Kt_slope_2 = 0)

\* an update on a full history returned a falling slope that differs from
\* half the last one-step change
C13_Witness ==
    /\ ret.op = "update_state"
    /\ Len(state.K_hist) = 6
    /\ state.Kt_slope_2 < 0
    /\ 2 * state.Kt_slope_2 # state.K_hist[6] - state.K_hist[5]

----------------------------------------------------------------------------
(* Properties of two sessions (SpecSessions) *)

\* what the trace hash is taken over
Triple(s) == <<s.K_hist, s.R_hist, s.turn_index>>

\* C14: in every state reachable from a fresh session by update_state and
\* segment_now, trace_hash is a function of (K_hist, R_hist, turn_index)
\* only: two independently built states with the same triple have the same
\* trace_hash, states whose triples differ have different trace_hash (the
\* digest taken as injective), and segment_now leaves trace_hash consistent
\* with the triple.
C14_HashOfTriple ==
    (Triple(state) = Triple(peer)) <=> (state.trace_hash = peer.trace_hash)

\* two sessions with the same triple and the same hash, one of them after a
\* segmentation that changed its other fields
C14_Witness ==
    /\ state.turn_index >= 2
    /\ Triple(state) = Triple(peer)
    /\ state.trace_hash = peer.trace_hash
    /\ state.cooldown_active /\ ~peer.cooldown_active
    /\ state.invariants # peer.invariants

\* two sessions whose triples differ in R_hist alone
TriplesDifferInR ==
    /\ state.K_hist = peer.K_hist
    /\ state.turn_index = peer.turn_index
    /\ state.R_hist # peer.R_hist

\* C15: independent sessions share no mutable state: the K_t, R_t, metrics,
\* trace_hash and should_segment results produced on one session are the
\* same whether or not updates on another session are interleaved.
C15_SessionsIndependent ==
    /\ state.K_t = solo.state.K_t
    /\ state.R_t = solo.state.R_t
    /\ state.trace_hash = solo.state.trace_hash
    /\ ret = solo.ret

----------------------------------------------------------------------------
(* Properties of the verifier (SpecVerify) *)

\* the events verify loaded, and the (index, name) pairs whose predicate is
\* false or raises
CallEvents == load_events(call.exists, call.log)

FailingPairs ==
    {p \in (0..(Len(CallEvents) - 1)) \X {InvariantNames[n] : n \in DOMAIN InvariantNames} :
        Rule(p[2], CallEvents[p[1] + 1]) # "ok"}

Reported == {call.result.failures[k] : k \in DOMAIN call.result.failures}

\* C16: on a non-empty log verify evaluates every record against every one
\* of the five predicates and reports exactly the (index, name) pairs whose
\* predicate is false or raises, each once, never stopping at the first
\* failure; a log of one otherwise valid record with dampening = 1.5 yields
\* exactly one violation, naming dampening_range.
C16_Exhaustive ==
    call.fn = "verify" =>
        /\ CallEvents # <<>> =>
              /\ Reported = FailingPairs
              /\ Len(call.result.failures) = Cardinality(FailingPairs)
        /\ (call.exists /\ call.log = <<LineDampening>>) =>
              /\ call.result.failures = << <<0, "dampening_range">> >>
              /\ call.result.code = 2

\* verify reported failures of two records, a raising predicate among them
C16_Witness ==
    /\ call.fn = "verify"
    /\ Len(call.result.failures) >= 4
    /\ \E p, q \in Reported : p[1] # q[1]
    /\ \E p \in Reported : Rule(p[2], CallEvents[p[1] + 1]) = "exception"
    /\ \E i \in DOMAIN call.log : ~Parseable(call.log[i])

\* C17: verify never reports CLEAN on a log with no usable record: a
\* missing file, an empty file and a file of unparseable lines only give
\* code 1; code 0 if and only if at least one record was loaded and no
\* (record, predicate) pair failed; code 2 if and only if a pair failed.
C17_NeverVacuouslyClean ==
    call.fn = "verify" =>
        /\ (\/ ~call.exists
            \/ call.log = <<>>
            \/ \A i \in DOMAIN call.log : ~Parseable(call.log[i]))
               => call.result.code = 1
        /\ call.result.code = 0 <=> (CallEvents # <<>> /\ FailingPairs = {})
        /\ call.result.code = 2 <=> (FailingPairs # {})
        /\ call.result.code \in {0, 1, 2}

\* verify ran on an existing file holding unparseable lines only
C17_Witness ==
    /\ call.fn = "verify"
    /\ call.exists
    /\ Len(call.log) >= 2
    /\ \A i \in DOMAIN call.log : ~Parseable(call.log[i])
    /\ call.result.code = 1

----------------------------------------------------------------------------
(* Frame of segment_now (SpecHistory) *)

\* C18: segment_now sets cooldown_active, cooldown_turns_left = 2 and
\* last_segment_turn = turn_index, replaces state.invariants by the ones
\* extracted from the buffer, and returns a seed-pack whose turn, K_t, R_t,
\* Kt_slope_2 and trace_hash are the state's values at the call; it leaves
\* K_t, R_t, K_hist, R_hist, Kt_slope_2, turn_index, trace_hash,
\* cooldown_exit_K and cooldown_min_turns unchanged.
C18_SegmentNowFrame ==
    [][\A buffer \in Buffers : SegmentNow(buffer) =>
          /\ state'.cooldown_active
          /\ state'.cooldown_turns_left = 2
          /\ state'.last_segment_turn = state.turn_index
          /\ state'.invariants = extract_invariants(buffer)
          /\ ret'.op = "segment_now"
          /\ ret'.val.turn = state.turn_index
          /\ ret'.val.K_t = state.K_t
          /\ ret'.val.R_t = state.R_t
          /\ ret'.val.Kt_slope_2 = state.Kt_slope_2
          /\ ret'.val.trace_hash = state.trace_hash
          /\ state'.K_t = state.K_t
          /\ state'.R_t = state.R_t
          /\ state'.K_hist = state.K_hist
          /\ state'.R_hist = state.R_hist
          /\ state'.Kt_slope_2 = state.Kt_slope_2
          /\ state'.turn_index = state.turn_index
          /\ state'.trace_hash = state.trace_hash
          /\ state'.cooldown_exit_K = state.cooldown_exit_K
          /\ state'.cooldown_min_turns = state.cooldown_min_turns]_vars

\* segment_now has just run on a session with a non-zero slope and a
\* buffer holding constraint lines
C18_Witness ==
    /\ ret.op = "segment_now"
    /\ state.turn_index >= 3
    /\ state.Kt_slope_2 # 0
    /\ state.last_segment_turn = state.turn_index
    /\ state.invariants.constraints # <<>>
    /\ ret.val.Kt_slope_2 = state.Kt_slope_2

----------------------------------------------------------------------------
(* Properties of may_execute and of the confidence score (SpecCalls) *)

\* C19: may_execute returns ALLOW if and only if mode is "execute",
\* operator_ok is true and capabilities is non-empty; otherwise it returns
\* DENY with the reason of the first failing check in the order mode,
\* operator approval, capabilities; with the default arguments it denies.
C19_ExplicitOptIn ==
    call.fn = "may_execute" =>
        /\ call.result.decision \in {"ALLOW", "DENY"}
        /\ call.result.decision = "ALLOW" <=>
              (call.mode = "execute" /\ call.operator_ok /\ call.capabilities # <<>>)
        /\ call.mode # "execute" =>
              call.result = [decision |-> "DENY", reason |-> "execution mode not enabled"]
        /\ (call.mode = "execute" /\ ~call.operator_ok) =>
              call.result = [decision |-> "DENY", reason |-> "operator approval not present"]
        /\ (call.mode = "execute" /\ call.operator_ok /\ call.capabilities = <<>>) =>
              call.result = [decision |-> "DENY", reason |-> "no executable capabilities"]
        /\ call.defaults => call.result.decision = "DENY"

\* a call that fails all three checks is denied for the mode
C19_Witness ==
    /\ call.fn = "may_execute"
    /\ call.mode # "execute"
    /\ ~call.operator_ok
    /\ call.capabilities = <<>>
    /\ call.result.reason = "execution mode not enabled"

\* C20: compute_confidence is non-increasing in entropy with the other
\* inputs held fixed, and its result is always in [0, 1]: for snapshots
\* differing only in entropy e1 <= e2, confidence(e1) >= confidence(e2).
\* The entropy the score reads is the snapshot's mean_entropy; snapshots
\* differing only in the last text's entropy score the same.
C20_NonIncreasingInEntropy ==
    call.fn = "compute_confidence" =>
        /\ 0 <= call.result /\ call.result <= 1000
        /\ (Truthy(call.gate_snapshot) /\ "mean_entropy" \in DOMAIN call.gate_snapshot) =>
              \A e2 \in MeanEntropies :
                  call.gate_snapshot.mean_entropy <= e2 =>
                      compute_confidence([call.gate_snapshot EXCEPT !.mean_entropy = e2],
                                         call.invariant_status) <= call.result
        /\ (Truthy(call.gate_snapshot) /\ "entropy" \in DOMAIN call.gate_snapshot) =>
              \A e2 \in LastEntropies :
                  call.gate_snapshot.entropy <= e2 =>
                      compute_confidence([call.gate_snapshot EXCEPT !.entropy = e2],
                                         call.invariant_status) <= call.result

\* a stabilized snapshot scored strictly between 0 and 1, and a higher mean
\* entropy scores strictly lower
C20_Witness ==
    /\ call.fn = "compute_confidence"
    /\ Truthy(call.gate_snapshot)
    /\ InList("stabilize", Get(call.gate_snapshot, "active_constraints", <<>>))
    /\ 0 < call.result /\ call.result < 1000
    /\ \E e2 \in MeanEntropies :
           /\ call.gate_snapshot.mean_entropy < e2
           /\ compute_confidence([call.gate_snapshot EXCEPT !.mean_entropy = e2],
                                 call.invariant_status) < call.result

----------------------------------------------------------------------------
(* Properties of the estimators (SpecEstimators) *)

InUnit(x) == 0 <= x /\ x <= KScale

\* C21: estimate_coherence and estimate_recursion return values in [0,1]
\* for every text, so K_t, R_t and every entry of K_hist and R_hist stay in
\* [0,1] after any sequence of updates; for empty text measure_entropy is 0
\* and the coherence is 0, and update_state on empty text still completes a
\* normal turn: turn_index is incremented and 0 is appended to K_hist.
C21_EstimatorsTotalAndBounded ==
    /\ call.fn \in {"estimate_coherence", "estimate_recursion"} => InUnit(call.result)
    /\ (call.fn = "estimate_coherence" /\ Blank(call.text)) => call.result = 0
    /\ (call.fn = "measure_entropy" /\ extract_signal(call.text) = <<>>) => call.result = 0
    /\ InUnit(state.K_t) /\ InUnit(state.R_t)
    /\ \A i \in DOMAIN state.K_hist : InUnit(state.K_hist[i])
    /\ \A i \in DOMAIN state.R_hist : InUnit(state.R_hist[i])
    /\ (call.fn = "estimate_coherence" /\ call.in_update /\ Blank(call.text)) =>
          /\ state.turn_index = Len(trail)
          /\ ret.op = "update_state"
          /\ ret.val.turn = state.turn_index
          /\ state.K_hist[Len(state.K_hist)] = 0
          /\ state.K_t = 0

\* a second turn on empty text after a non-empty one, and the estimators
\* were driven to both clamps
C21_Witness ==
    /\ call.fn = "estimate_coherence" /\ call.in_update /\ Blank(call.text)
    /\ state.turn_index = 2
    /\ state.K_hist[1] > 0
    /\ state.K_hist[2] = 0

\* estimate_coherence returned 0 on a text whose unclamped score is negative
ClampedAtZero ==
    /\ call.fn = "estimate_coherence"
    /\ call.text = TextFiller
    /\ call.result = 0

\* the token set of the call that immediately preceded the latest
\* estimate_coherence call
PrecedingTokens ==
    IF call.preceding = <<>> THEN {} ELSE Tokens(call.preceding[1])

\* C22: in estimate_coherence the overlap used for the soft penalty of a
\* non-empty text is the size of the intersection of its token set with the
\* token set of the immediately preceding call to estimate_coherence,
\* whatever that call's text was, an empty text (whose token set is empty)
\* included.
C22_OverlapWithPrecedingCall ==
    (call.fn = "estimate_coherence" /\ ~Blank(call.text)) =>
        call.result = estimate_coherence(call.text, PrecedingTokens).K

----------------------------------------------------------------------------
(* Properties of concurrent appends (SpecWriters) *)

\* the writers that have opened the log and not yet finished their line
InsideWrite == {w \in Writers : writers[w].pc # "idle"}

\* a first part of a line that is followed by something else than its rest
InterleavedPartialLine ==
    \E i \in DOMAIN log :
        /\ "fragment" \in DOMAIN log[i]
        /\ log[i].fragment = "head"
        /\ i < Len(log)
        /\ log[i + 1] # Fragment(log[i].of, "tail")

\* C23: concurrent writers to the instrumentation log serialize their
\* appends: two concurrent record() calls are never inside their line write
\* at the same time, so no state with interleaved partial lines is reachable.
C23_AppendsSerialized ==
    /\ Cardinality(InsideWrite) <= 1
    /\ ~InterleavedPartialLine

\* a store that holds one JSON array and nothing else is no line-oriented
\* store
IsJsonArray(file) ==
    Len(NonBlank(file)) = 1 /\ Head(NonBlank(file)).kind = "list"

Ids(file) == [i \in DOMAIN file |-> file[i].id]

\* C24: a line that does not parse never aborts doctor_repair: on a
\* line-oriented store it returns (kept, dropped) with kept the number of
\* lines that parse and dropped the number of non-blank lines that do not,
\* it leaves in the store exactly the kept records in their order, and a
\* second run returns the same kept and dropped = 0
C24_RepairNeverAborts ==
    (call.fn = "doctor_repair" /\ call.exists /\ ~IsJsonArray(call.file)) =>
        LET parseable == SelectSeq(call.file, Parses)
            unparseable == SelectSeq(NonBlank(call.file),
                                     LAMBDA line : ~Parses(line))
        IN  /\ call.result = <<Len(parseable), Len(unparseable)>>
            /\ Ids(call.after) = Ids(parseable)
            /\ \A i \in DOMAIN call.after : Parses(call.after[i])
            /\ doctor_repair(TRUE, call.after).result = <<Len(parseable), 0>>

\* no command is running at the node store
NodeStoreAtRest ==
    /\ nodes.appender.pc = "idle"
    /\ nodes.doctor.pc = "idle"
    /\ nodes.importer.pc = "idle"

\* C30: no node is lost at the node store: when append_node, doctor_repair
\* and import --merge have all finished, every node that append_node
\* appended is in the store
C30_NoNodeLost ==
    NodeStoreAtRest =>
        \A id \in nodes.appended : \E i \in DOMAIN nodes.file : nodes.file[i].id = id

\* the entries written since the last clear that are not expired at the
\* time of the read
Unexpired == SelectSeq(call.written, LAMBDA m : m.expires_at > call.now)

\* C25 as stated: every read returns exactly the unexpired entries written
\* since the last clear, in write order, and purges the rest, whatever the
\* clock did
C25_Original ==
    call.fn = "read" => (call.result = Unexpired /\ call.store = Unexpired)

\* C25: with a non-decreasing clock, read returns exactly the entries
\* written since the last clear whose expires_at is after the current time,
\* in write order, and purges the rest; an entry once omitted from a read is
\* not returned, an entry written with ttl_seconds <= 0 is not returned, and
\* a read after clear with no write since returns nothing
C25_Amended ==
    (call.fn = "read" /\ ~call.clock_stepped_back) =>
        /\ call.result = Unexpired
        /\ call.store = Unexpired
        /\ \A i \in DOMAIN call.result :
              /\ call.result[i].content \notin call.omitted
              /\ call.result[i].ttl > 0
        /\ call.cleared => call.result = <<>>

\* a read under a clock that never went back returns one entry and leaves
\* out an expired one and one it had omitted before
C25_Witness ==
    /\ call.fn = "read"
    /\ ~call.clock_stepped_back
    /\ call.result # <<>>
    /\ Len(call.result) < Len(call.written)
    /\ call.omitted # {}

----------------------------------------------------------------------------
(* Properties of the cooldown on sessions run from a fresh state *)

\* C26: on the update_state call that clears the cooldown, with the default
\* cooldown_exit_K of 0.90, should_segment on the resulting state is false:
\* no checkpoint is requested on the turn the cooldown ends
C26_NoCheckpointAtCooldownEnd ==
    [][(/\ state.cooldown_active
        /\ ~state'.cooldown_active
        /\ state.cooldown_exit_K = (90 * KScale) \div 100) =>
          /\ ~should_segment(state')
          /\ ~saturation_trigger(state')
          /\ state'.Kt_slope_2 >= -((5 * KScale) \div 100)]_vars

\* the second update after a segment_now has cleared the cooldown on a
\* coherence of 0.90 or more, and no checkpoint is due
C26_Witness ==
    /\ ret.op = "update_state"
    /\ ~state.cooldown_active
    /\ state.last_segment_turn >= 0
    /\ state.turn_index - state.last_segment_turn = 2
    /\ state.K_t >= state.cooldown_exit_K
    /\ Len(state.K_hist) >= 3
    /\ ~should_segment(state)

\* C27: in a session run from a fresh state, while cooldown_active is true
\* should_segment is true if and only if Kt_slope_2 < -0.30 and R_t > 0.80;
\* the saturation trigger alone never causes segmentation
C27_SaturationAloneNeverSegments ==
    state.cooldown_active =>
        /\ should_segment(state) <=>
              (/\ state.Kt_slope_2 < -((30 * KScale) \div 100)
               /\ state.R_t > (80 * KScale) \div 100)
        /\ saturation_trigger(state) =>
              state.Kt_slope_2 > -((225 * KScale) \div 1000)

\* a session in cooldown is saturated in a bad basin and no checkpoint is
\* requested
C27_Witness ==
    /\ state.cooldown_active
    /\ saturation_trigger(state)
    /\ ~acceleration_trigger(state)
    /\ ~should_segment(state)

\* a session in cooldown collapses fast enough for a checkpoint
C27_Collapse ==
    /\ state.cooldown_active
    /\ should_segment(state)

\* C29: in a session run from a fresh state, while cooldown_active is true
\* cooldown_turns_left = 2 - (turn_index - last_segment_turn); so with
\* cooldown_min_turns <= 2 the minimum-turns condition holds whenever
\* cooldown_turns_left <= 0, and cooldown_turns_left is negative once the
\* cooldown has outlasted two turns
C29_TurnsLeftTracksTurns ==
    state.cooldown_active =>
        /\ state.cooldown_turns_left =
              2 - (state.turn_index - state.last_segment_turn)
        /\ (state.cooldown_min_turns <= 2 /\ state.cooldown_turns_left <= 0) =>
              (state.turn_index - state.last_segment_turn) >= state.cooldown_min_turns
        /\ (state.turn_index - state.last_segment_turn > 2) =>
              state.cooldown_turns_left < 0

\* a cooldown with cooldown_min_turns = 1 has outlasted three turns
C29_Witness ==
    /\ state.cooldown_active
    /\ state.cooldown_min_turns = 1
    /\ state.turn_index - state.last_segment_turn = 3
    /\ state.cooldown_turns_left = -1

----------------------------------------------------------------------------
(* The decision on what the gate emits (SpecGate) *)

\* a CLEAN invariant status
StatusClean == [status |-> "CLEAN"]

\* may_act on the confidence of the emitted snapshot, under a CLEAN status,
\* the default threshold and the given policy
Decision(policy_snapshot) ==
    may_act(compute_confidence(out.snapshot, StatusClean), StatusClean,
            policy_snapshot, DEFAULT_CONFIDENCE_THRESHOLD)

\* C28: with the default ceiling 0.30 and threshold 0.75, a CLEAN status and
\* no prohibiting policy, the decision on a snapshot emitted by process is
\* DENY "confidence below threshold" when the snapshot carries stabilize and
\* ALLOW when it does not
C28_StabilizeDeniesAction ==
    out.pending =>
        /\ InList("stabilize", out.snapshot.active_constraints) =>
              /\ Decision(None) = Deny("confidence below threshold")
              /\ Decision(EmptyDict) = Deny("confidence below threshold")
              /\ Decision([allow_action |-> TRUE]) = Deny("confidence below threshold")
        /\ ~InList("stabilize", out.snapshot.active_constraints) =>
              /\ Decision(None).decision = "ALLOW"
              /\ Decision(EmptyDict).decision = "ALLOW"
              /\ Decision([allow_action |-> TRUE]).decision = "ALLOW"

\* a stabilized snapshot that reports a mean entropy of exactly the ceiling
\* is denied on a confidence of 0.68
C28_Witness ==
    /\ out.pending
    /\ InList("stabilize", out.snapshot.active_constraints)
    /\ out.snapshot.mean_entropy = ENTROPY_MAX
    /\ compute_confidence(out.snapshot, StatusClean) = 680
    /\ Decision(None) = Deny("confidence below threshold")

====
